---- MODULE Spec2Model ----
(***************************************************************************)
(* Telemetry orchestration of service-web-back: the store_telemetry,       *)
(* get_device_latest_telemetry and get_device_telemetry routes over the    *)
(* Cassandra telemetry service, the Redis cache service and the MongoDB    *)
(* event log.  Every handler is one action; the failures of the external   *)
(* calls it makes are inputs of the action.                                *)
(***************************************************************************)
EXTENDS Integers, Sequences, FiniteSets, TLC

VARIABLES
    Device,        \* PostgreSQL devices table: device id -> row
    apikey,        \* Redis "apikey:<key>" string keys
    latest,        \* Redis "telemetry:latest:<id>" hashes
    online,        \* Redis "devices:online" sorted set: member -> score
    lastseen,      \* Redis "device:lastseen:<id>" string keys
    devinfo,       \* Redis "device:<id>" string keys
    alerts,        \* Redis "alerts:<id>" lists
    device_data,   \* Cassandra device_data rows
    latest_data,   \* Cassandra latest_data rows
    user_data,     \* Cassandra user_data rows
    event_logs,    \* MongoDB event_logs collection, in insertion order
    now,           \* wall clock, seconds
    submits,       \* number of store_telemetry requests handled so far
    ratelimit,     \* Redis "ratelimit:<key>" string keys
    calls,         \* requests in progress: caller -> position and locals
    persisted,     \* history: <<device, measurement, value>> ever inserted into the store
    last,          \* history: the last request handled and its response
    rlhist,        \* history: the rate-limit calls of the current window
    presence       \* history: device -> when it was last marked online, or taken offline

vars == <<Device, apikey, latest, online, lastseen, devinfo, alerts,
          device_data, latest_data, user_data, event_logs, now, submits,
          ratelimit, calls, persisted, last, rlhist, presence>>

----------------------------------------------------------------------------
(* Bounds *)

MaxVal == 1
MaxTime == 601
MaxSubmits == 2
MaxAlerts == 1
MaxEvents == 3
MaxCallers == 2
MaxRateTime == 6
\* the limit and the window the rate-limit callers pass
MaxRequests == 2
\* telemetry points (distinct timestamps) written per device
MaxPoints == 2
Window == 2

----------------------------------------------------------------------------
(* Program constants *)

Success == 201
OK == 200
BadRequest == 400
Unauthorized == 401
Forbidden == 403
NotFound == 404
InternalError == 500

ApiKeyTTL == 3600
LatestTTL == 600
OnlineWindow == 300
DefaultLimit == 1000
MaxLimit == 10000

----------------------------------------------------------------------------
(* Universe of the model *)

DeviceIds == {1, 2}
ApiKeys == {"k1", "k2"}
NoKey == ""
MeasurementNames == {"humidity", "temperature"}
\* measurement_name ASC, the clustering order of device_data
NameOrder == <<"humidity", "temperature">>

DeviceStatuses == {"active", "inactive", "maintenance"}
Callers == 1..MaxCallers

NoDevice == 0
NoExpiry == -1
NoScore == -1
NoValue == -1
None == [x \in {} |-> 0]

\* a caller with no request in progress
Idle == [pc |-> "idle", current |-> NoValue]

----------------------------------------------------------------------------
(* Python values carried by a JSON measurement map *)

PyNum(n) == [t |-> "num", n |-> n, s |-> ""]
PyBool(b) == [t |-> "bool", n |-> IF b THEN 1 ELSE 0, s |-> ""]
PyStr(s) == [t |-> "str", n |-> 0, s |-> s]

PyValues == {PyNum(n) : n \in 1..MaxVal} \cup {PyBool(TRUE), PyStr("ok"), PyStr("7")}

\* mutant: a bool passes, as it does isinstance(value, (int, float))
IsNumeric_with_bool(v) == v.t \in {"num", "bool"}

\* isinstance(value, (int, float)) and not isinstance(value, bool)
IsNumeric(v) == v.t = "num"

Digits == <<"0", "1", "2", "3", "4", "5", "6", "7", "8", "9">>

\* str(n) / repr(x): what redis-py sends for an int or a float
ToStr(n) == Digits[n + 1]

\* float(s) succeeds
IsFloatStr(s) == \E i \in 1..Len(Digits) : Digits[i] = s

\* float(s)
ToFloat(s) == (CHOOSE i \in 1..Len(Digits) : Digits[i] = s) - 1

\* redis-py Encoder.encode accepts bytes, str, int and float; anything else
\* (a bool first of all) raises DataError before a byte is sent
Encodable(v) == v.t \in {"num", "str"}

Encode(v) == IF v.t = "num" THEN ToStr(v.n) ELSE v.s

\* A measurement dict in insertion order: a sequence of items, names distinct
Item(name, value) == [name |-> name, value |-> value]

Keys(data) == {data[i].name : i \in 1..Len(data)}

ValueOf(data, name) == data[CHOOSE i \in 1..Len(data) : data[i].name = name].value

\* the int/float, non-boolean part of a measurement dict, as name -> number
NumericSubset(data) ==
    [name \in {n \in Keys(data) : IsNumeric(ValueOf(data, n))} |-> ValueOf(data, name).n]

Range(f) == {f[x] : x \in DOMAIN f}

----------------------------------------------------------------------------
(* CassandraTelemetryService *)

\* The three tables a telemetry write touches
Tables(dd, ld, ud) == [device_data |-> dd, latest_data |-> ld, user_data |-> ud]

\* One session.execute of an INSERT
Stmt(table, device_id, user_id, timestamp, name, value) ==
    [table |-> table, device_id |-> device_id, user_id |-> user_id,
     timestamp |-> timestamp, measurement_name |-> name, numeric_value |-> value]

DeviceDataRow(st) ==
    [device_id |-> st.device_id, timestamp |-> st.timestamp,
     measurement_name |-> st.measurement_name, numeric_value |-> st.numeric_value]

LatestDataRow(st) ==
    [device_id |-> st.device_id, measurement_name |-> st.measurement_name,
     timestamp |-> st.timestamp, numeric_value |-> st.numeric_value]

UserDataRow(st) ==
    [user_id |-> st.user_id, timestamp |-> st.timestamp, device_id |-> st.device_id,
     measurement_name |-> st.measurement_name, numeric_value |-> st.numeric_value]

\* mutant: an INSERT on an existing device_data key adds to the stored value
Execute_accumulate(db, st) ==
    LET old == {r \in db.device_data :
                   /\ r.device_id = st.device_id /\ r.timestamp = st.timestamp
                   /\ r.measurement_name = st.measurement_name}
        sum == IF old = {} THEN st.numeric_value
               ELSE st.numeric_value + (CHOOSE r \in old : TRUE).numeric_value
    IN CASE st.table = "device_data" ->
              [db EXCEPT !.device_data =
                  (@ \ old) \cup {[DeviceDataRow(st) EXCEPT !.numeric_value = sum]}]
         [] st.table = "latest_data" ->
              [db EXCEPT !.latest_data =
                  {r \in @ : ~(r.device_id = st.device_id
                               /\ r.measurement_name = st.measurement_name)}
                  \cup {LatestDataRow(st)}]
         [] OTHER ->
              [db EXCEPT !.user_data = @ \cup {UserDataRow(st)}]

\* An INSERT is an upsert on the primary key of its table
Execute(db, st) ==
    CASE st.table = "device_data" ->
           [db EXCEPT !.device_data =
               {r \in @ : ~(r.device_id = st.device_id /\ r.timestamp = st.timestamp
                            /\ r.measurement_name = st.measurement_name)}
               \cup {DeviceDataRow(st)}]
      [] st.table = "latest_data" ->
           [db EXCEPT !.latest_data =
               {r \in @ : ~(r.device_id = st.device_id
                            /\ r.measurement_name = st.measurement_name)}
               \cup {LatestDataRow(st)}]
      [] OTHER ->
           [db EXCEPT !.user_data =
               {r \in @ : ~(r.user_id = st.user_id /\ r.timestamp = st.timestamp
                            /\ r.device_id = st.device_id
                            /\ r.measurement_name = st.measurement_name)}
               \cup {UserDataRow(st)}]

RECURSIVE ExecuteAll(_, _)
ExecuteAll(db, stmts) ==
    IF stmts = <<>> THEN db ELSE ExecuteAll(Execute(db, Head(stmts)), Tail(stmts))

\* the items the write loops keep: "Skip non-numeric values"
NumericItems(data) == SelectSeq(data, LAMBDA it : IsNumeric(it.value))

\* the statements of the loop of write_telemetry, in execution order
DeviceStmts(device_id, data, timestamp) ==
    LET items == NumericItems(data)
    IN [i \in 1..(2 * Len(items)) |->
          LET it == items[(i + 1) \div 2]
          IN Stmt(IF i % 2 = 1 THEN "device_data" ELSE "latest_data",
                  device_id, 0, timestamp, it.name, it.value.n)]

\* the statements of the loop of write_telemetry_with_user
UserStmts(device_id, user_id, data, timestamp) ==
    LET items == NumericItems(data)
    IN [i \in 1..Len(items) |->
          Stmt("user_data", device_id, user_id, timestamp, items[i].name, items[i].value.n)]

\* Runs stmts against db when the failAt-th session.execute of the request
\* raises (0: none raises) and `before` executes were already made.
RunStmts(db, stmts, before, failAt) ==
    LET raises == failAt > before /\ failAt <= before + Len(stmts)
        done == IF raises THEN failAt - before - 1 ELSE Len(stmts)
    IN [db |-> ExecuteAll(db, SubSeq(stmts, 1, done)), ok |-> ~raises,
        calls |-> before + Len(stmts)]

\* mutant: the guard on device_id and data is left out
write_telemetry_unguarded(db, device_id, data, timestamp, failAt) ==
    RunStmts(db, DeviceStmts(device_id, data, timestamp), 0, failAt)

write_telemetry(db, device_id, data, timestamp, failAt) ==
    IF device_id = NoDevice \/ data = <<>>
    THEN [db |-> db, ok |-> FALSE, calls |-> 0]
    ELSE RunStmts(db, DeviceStmts(device_id, data, timestamp), 0, failAt)

write_telemetry_with_user(db, device_id, user_id, data, timestamp, failAt) ==
    LET w == write_telemetry(db, device_id, data, timestamp, failAt)
    IN IF ~w.ok
       THEN [db |-> w.db, ok |-> FALSE, calls |-> w.calls]
       ELSE RunStmts(w.db, UserStmts(device_id, user_id, data, timestamp), w.calls, failAt)

\* CassandraTelemetryService.get_latest_telemetry: None when there is no row,
\* and None as well when the SELECT raises
cassandra_get_latest_telemetry(ld, device_id, raises) ==
    IF raises THEN None
    ELSE LET rows == {r \in ld : r.device_id = device_id}
         IN [name \in {r.measurement_name : r \in rows} |->
               (CHOOSE r \in rows : r.measurement_name = name).numeric_value]

NameRank(name) == CHOOSE i \in 1..Len(NameOrder) : NameOrder[i] = name

\* clustering order of device_data: timestamp DESC, measurement_name ASC
RowBefore(r1, r2) ==
    \/ r1.timestamp > r2.timestamp
    \/ r1.timestamp = r2.timestamp
       /\ NameRank(r1.measurement_name) < NameRank(r2.measurement_name)

RECURSIVE SortRows(_)
SortRows(rows) ==
    IF rows = {} THEN <<>>
    ELSE LET first == CHOOSE r \in rows : \A o \in rows \ {r} : RowBefore(r, o)
         IN <<first>> \o SortRows(rows \ {first})

\* "Group by timestamp": one point per timestamp, in order of first appearance
RECURSIVE GroupByTime(_, _)
GroupByTime(rows, acc) ==
    IF rows = <<>> THEN acc
    ELSE LET row == Head(rows)
             seen == \E i \in 1..Len(acc) : acc[i].timestamp = row.timestamp
             put(m) == [n \in DOMAIN m \cup {row.measurement_name} |->
                          IF n = row.measurement_name THEN row.numeric_value ELSE m[n]]
         IN GroupByTime(Tail(rows),
              IF seen
              THEN [i \in 1..Len(acc) |->
                      IF acc[i].timestamp = row.timestamp
                      THEN [acc[i] EXCEPT !.measurements = put(@)] ELSE acc[i]]
              ELSE Append(acc, [timestamp |-> row.timestamp,
                                measurements |-> put(None)]))

\* CassandraTelemetryService.get_device_telemetry with parsed bounds:
\* LIMIT counts rows, the result is [] when the SELECT raises
cassandra_get_device_telemetry(dd, device_id, start_dt, end_dt, limit, raises) ==
    IF raises THEN <<>>
    ELSE LET rows == SortRows({r \in dd : r.device_id = device_id
                                  /\ r.timestamp >= start_dt /\ r.timestamp <= end_dt})
             result == SubSeq(rows, 1, IF limit < Len(rows) THEN limit ELSE Len(rows))
         IN GroupByTime(result, <<>>)

----------------------------------------------------------------------------
(* RedisCacheService.  `fr` is the set of Redis commands that raise during  *)
(* the request, `t` the clock.                                              *)

PresentedKeys == ApiKeys \cup {"zz"}

RedisCommands ==
    {"get", "setex", "hgetall", "hset", "expire", "zadd", "set", "delete", "zrem",
     "incr", "zscore", "zrangebyscore", "rpush", "lrange"}

NoMapping == [device_id |-> NoDevice, user_id |-> 0, status |-> ""]
NoEntry == [present |-> FALSE, v |-> NoMapping, exp |-> NoExpiry]
NoHash == [h |-> None, exp |-> NoExpiry]

\* a key with an expiry is gone once the clock reaches it
Live(exp, t) == exp = NoExpiry \/ t < exp

cache_api_key(ak, api_key, device_data_, ttl, fr, t) ==
    IF "setex" \in fr
    THEN [apikey |-> ak, ok |-> FALSE]
    ELSE [apikey |-> [ak EXCEPT ![api_key] =
                        [present |-> TRUE, v |-> device_data_, exp |-> t + ttl]],
          ok |-> TRUE]

\* None (present = FALSE) on a missing key and on an error
get_device_by_api_key(ak, api_key, fr, t) ==
    IF "get" \in fr \/ ~ak[api_key].present \/ ~Live(ak[api_key].exp, t)
    THEN NoEntry
    ELSE ak[api_key]

update_last_seen(ls, device_id, fr, t) ==
    IF "set" \in fr
    THEN [lastseen |-> ls, ok |-> FALSE]
    ELSE [lastseen |-> [ls EXCEPT ![device_id] = t], ok |-> TRUE]

\* zadd, then update_last_seen, whose own failure is swallowed inside it
set_device_online(on, ls, device_id, fr, t) ==
    IF "zadd" \in fr
    THEN [online |-> on, lastseen |-> ls, ok |-> FALSE]
    ELSE [online |-> [on EXCEPT ![device_id] = t],
          lastseen |-> update_last_seen(ls, device_id, fr, t).lastseen,
          ok |-> TRUE]

\* mutant: the whole sorted set is dropped
set_device_offline_all(on, device_id, fr) ==
    IF "zrem" \in fr
    THEN [online |-> on, ok |-> FALSE]
    ELSE [online |-> [d \in DOMAIN on |-> NoScore], ok |-> TRUE]

\* zrem of the member; the set is untouched when the command raises
set_device_offline(on, device_id, fr) ==
    IF "zrem" \in fr
    THEN [online |-> on, ok |-> FALSE]
    ELSE [online |-> [on EXCEPT ![device_id] = NoScore], ok |-> TRUE]

\* mutant: any score at all counts as online
is_device_online_any_score(on, device_id, fr, t) ==
    "zscore" \notin fr /\ on[device_id] # NoScore

\* "if not score" is true of a missing member and of a score of 0.0
is_device_online(on, device_id, fr, t) ==
    LET score == on[device_id]
    IN IF "zscore" \in fr \/ score = NoScore \/ score = 0
       THEN FALSE
       ELSE (t - score) < OnlineWindow

\* zrangebyscore(cutoff, now), both ends inclusive; the members as a set
get_online_devices(on, fr, t) ==
    IF "zrangebyscore" \in fr
    THEN {}
    ELSE {d \in DOMAIN on : on[d] # NoScore /\ t - OnlineWindow <= on[d] /\ on[d] <= t}

\* HSET key field value [field value ...]: fields not named keep their value,
\* an existing key keeps its expiry, a new key has none
HSet(entry, mapping) ==
    [entry EXCEPT !.h = [n \in DOMAIN @ \cup DOMAIN mapping |->
                           IF n \in DOMAIN mapping THEN Encode(mapping[n]) ELSE @[n]]]

\* telemetry: measurement name -> Python value
cache_latest_telemetry(lt, device_id, telemetry, ttl, fr, t) ==
    IF "hset" \in fr \/ telemetry = None \/ \E n \in DOMAIN telemetry : ~Encodable(telemetry[n])
    THEN [latest |-> lt, ok |-> FALSE]
    ELSE LET cur == IF Live(lt[device_id].exp, t) THEN lt[device_id] ELSE NoHash
             set == HSet(cur, telemetry)
         IN IF "expire" \in fr
            THEN [latest |-> [lt EXCEPT ![device_id] = set], ok |-> FALSE]
            ELSE [latest |-> [lt EXCEPT ![device_id] = [set EXCEPT !.exp = t + ttl]],
                  ok |-> TRUE]

\* update_measurement: one HSET of one field, and no EXPIRE
update_measurement(lt, device_id, measurement_name, value, fr, t) ==
    IF "hset" \in fr \/ ~Encodable(value)
    THEN [latest |-> lt, ok |-> FALSE]
    ELSE LET cur == IF Live(lt[device_id].exp, t) THEN lt[device_id] ELSE NoHash
         IN [latest |-> [lt EXCEPT ![device_id] =
                           HSet(cur, [n \in {measurement_name} |-> value])],
             ok |-> TRUE]

\* hgetall, every value through float(); None on an empty hash and on any error
redis_get_latest_telemetry(lt, device_id, fr, t) ==
    LET data == IF Live(lt[device_id].exp, t) THEN lt[device_id].h ELSE None
    IN IF "hgetall" \in fr \/ data = None \/ \E n \in DOMAIN data : ~IsFloatStr(data[n])
       THEN None
       ELSE [n \in DOMAIN data |-> ToFloat(data[n])]

\* mutant: the four keys are deleted and the sorted set is left alone
invalidate_device_cache_keys_only(c, device_id, fr) ==
    IF "delete" \in fr
    THEN [c EXCEPT !.ok = FALSE]
    ELSE [c EXCEPT !.devinfo[device_id] = NoEntry,
                   !.latest[device_id] = NoHash,
                   !.lastseen[device_id] = NoValue,
                   !.alerts[device_id] = <<>>,
                   !.ok = TRUE]

\* delete of the four keys, then zrem
invalidate_device_cache(c, device_id, fr) ==
    IF "delete" \in fr
    THEN [c EXCEPT !.ok = FALSE]
    ELSE LET deleted == [c EXCEPT !.devinfo[device_id] = NoEntry,
                                  !.latest[device_id] = NoHash,
                                  !.lastseen[device_id] = NoValue,
                                  !.alerts[device_id] = <<>>]
         IN IF "zrem" \in fr
            THEN [deleted EXCEPT !.ok = FALSE]
            ELSE [deleted EXCEPT !.online[device_id] = NoScore, !.ok = TRUE]

\* setex of device:<id>
cache_device(di, device_id, device_data_, ttl, fr, t) ==
    IF "setex" \in fr
    THEN [devinfo |-> di, ok |-> FALSE]
    ELSE [devinfo |-> [di EXCEPT ![device_id] =
                         [present |-> TRUE, v |-> device_data_, exp |-> t + ttl]],
          ok |-> TRUE]

\* None (present = FALSE) on a missing key and on an error
get_device(di, device_id, fr, t) ==
    IF "get" \in fr \/ ~di[device_id].present \/ ~Live(di[device_id].exp, t)
    THEN NoEntry
    ELSE di[device_id]

\* None (NoValue) on a missing key and on an error
get_last_seen(ls, device_id, fr) ==
    IF "get" \in fr THEN NoValue ELSE ls[device_id]

\* rpush, then expire; the day-long expiry of the list lies beyond the clock
\* of the model
add_alert(al, device_id, alert, fr) ==
    IF "rpush" \in fr
    THEN [alerts |-> al, ok |-> FALSE]
    ELSE [alerts |-> [al EXCEPT ![device_id] = Append(@, alert)],
          ok |-> "expire" \notin fr]

\* lrange 0 -1; the empty list on an error
get_alerts(al, device_id, fr) ==
    IF "lrange" \in fr THEN <<>> ELSE al[device_id]

----------------------------------------------------------------------------
(* RedisCacheService: rate limiting *)

RateKeys == {"client"}

NoCounter == [present |-> FALSE, count |-> 0, exp |-> NoExpiry]

\* current = self.client.get(rate_key); None is NoValue
RateGet(rl, key, t) ==
    IF rl[key].present /\ Live(rl[key].exp, t) THEN rl[key].count ELSE NoValue

\* INCR: a missing key is created with value 1 and no expiry, an existing
\* key keeps its expiry
RateIncr(rl, key, t) ==
    IF rl[key].present /\ Live(rl[key].exp, t)
    THEN [rl EXCEPT ![key].count = @ + 1]
    ELSE [rl EXCEPT ![key] = [present |-> TRUE, count |-> 1, exp |-> NoExpiry]]

\* mutant: the request that finds the counter at the limit is still let in
Exceeded_off_by_one(count, max_requests) == count > max_requests

\* "if count >= max_requests"
Exceeded(count, max_requests) == count >= max_requests

\* mutant: a transport error denies the request
OnError_deny == FALSE

\* "return True  # Allow on error"
OnError == TRUE

\* check_rate_limit from the value its get returned on: `faulted` tells
\* whether a command raised
RateDecide(rl, key, current, max_requests, window, fr, t) ==
    IF current = NoValue
    THEN IF "setex" \in fr
         THEN [ratelimit |-> rl, result |-> OnError, faulted |-> TRUE]
         ELSE [ratelimit |-> [rl EXCEPT ![key] =
                                [present |-> TRUE, count |-> 1, exp |-> t + window]],
               result |-> TRUE, faulted |-> FALSE]
    ELSE IF Exceeded(current, max_requests)
    THEN [ratelimit |-> rl, result |-> FALSE, faulted |-> FALSE]
    ELSE IF "incr" \in fr
    THEN [ratelimit |-> rl, result |-> OnError, faulted |-> TRUE]
    ELSE [ratelimit |-> RateIncr(rl, key, t), result |-> TRUE, faulted |-> FALSE]

\* check_rate_limit with nothing happening between its get and its write
check_rate_limit(rl, key, max_requests, window, fr, t) ==
    IF "get" \in fr
    THEN [ratelimit |-> rl, result |-> OnError, faulted |-> TRUE]
    ELSE RateDecide(rl, key, RateGet(rl, key, t), max_requests, window, fr, t)

\* mutant: the counter is not looked at
get_rate_limit_remaining_full(rl, key, max_requests, fr, t) == max_requests

get_rate_limit_remaining(rl, key, max_requests, fr, t) ==
    LET current == RateGet(rl, key, t)
    IN IF "get" \in fr \/ current = NoValue
       THEN max_requests
       ELSE IF max_requests - current > 0 THEN max_requests - current ELSE 0

----------------------------------------------------------------------------
(* MongoDBService *)

\* insert_one into event_logs; None, and no document, when it raises
log_event(log, event, raises) ==
    IF raises THEN [event_logs |-> log, ok |-> FALSE]
    ELSE [event_logs |-> Append(log, event), ok |-> TRUE]

\* Cursor.sort("timestamp", DESCENDING); equal timestamps keep insertion order
RECURSIVE SortDescending(_)
SortDescending(docs) ==
    IF docs = <<>> THEN <<>>
    ELSE LET i == CHOOSE k \in 1..Len(docs) :
                    /\ \A j \in 1..Len(docs) : docs[j].timestamp <= docs[k].timestamp
                    /\ \A j \in 1..(k - 1) : docs[j].timestamp < docs[k].timestamp
         IN <<docs[i]>> \o SortDescending(SubSeq(docs, 1, i - 1)
                                          \o SubSeq(docs, i + 1, Len(docs)))

\* Cursor.limit(limit): "A limit of 0 is equivalent to no limit"
CursorLimit(docs, limit) ==
    IF limit = 0 \/ limit > Len(docs) THEN docs ELSE SubSeq(docs, 1, limit)

\* find({"device_id": device_id}).sort(...).limit(limit); [] when it raises
get_device_events(log, device_id, limit, raises) ==
    IF raises THEN <<>>
    ELSE CursorLimit(SortDescending(SelectSeq(log, LAMBDA e : e.device_id = device_id)),
                     limit)

get_user_events(log, user_id, limit, raises) ==
    IF raises THEN <<>>
    ELSE CursorLimit(SortDescending(SelectSeq(log, LAMBDA e : e.user_id = user_id)), limit)

get_events_by_type(log, event_type, limit, raises) ==
    IF raises THEN <<>>
    ELSE CursorLimit(SortDescending(SelectSeq(log, LAMBDA e : e.event_type = event_type)),
                     limit)

\* get_events: $gte start_time and $lte end_time, each only when given
\* (NoValue is None)
get_events(log, start_time, end_time, limit, raises) ==
    IF raises THEN <<>>
    ELSE CursorLimit(
             SortDescending(
                 SelectSeq(log, LAMBDA e :
                     /\ start_time # NoValue => e.timestamp >= start_time
                     /\ end_time # NoValue => e.timestamp <= end_time)),
             limit)

----------------------------------------------------------------------------
(* The identity store (SQLAlchemy model Device) *)

\* mutant: the id found in the cache is taken for a device without a lookup
query_get_unchecked(D, id) == id

\* Device.query.get(id)
query_get(D, id) == IF id \in DeviceIds /\ D[id].exists THEN id ELSE NoDevice

\* mutant: the lookup by key finds active devices only
filter_by_api_key_active(D, api_key) ==
    IF \E d \in DeviceIds : D[d].exists /\ D[d].api_key = api_key /\ D[d].status = "active"
    THEN CHOOSE d \in DeviceIds :
             D[d].exists /\ D[d].api_key = api_key /\ D[d].status = "active"
    ELSE NoDevice

\* Device.query.filter_by(api_key=api_key).first()
filter_by_api_key(D, api_key) ==
    IF \E d \in DeviceIds : D[d].exists /\ D[d].api_key = api_key
    THEN CHOOSE d \in DeviceIds : D[d].exists /\ D[d].api_key = api_key
    ELSE NoDevice

\* the dict the routes cache under apikey:<key>
Mapping(D, d) == [device_id |-> d, user_id |-> D[d].user_id, status |-> D[d].status]

----------------------------------------------------------------------------
(* Inputs of a request *)

\* the external calls that raise while one request is handled: the Redis
\* commands in redis, the cassandra-th session.execute (0: none), insert_one
Faults(redis, cassandra, mongo) == [redis |-> redis, cassandra |-> cassandra, mongo |-> mongo]

NoFaults == Faults({}, 0, FALSE)

\* the "timestamp" member of the body: absent, an ISO-8601 string, or malformed
NoTimestamp == [given |-> FALSE, valid |-> TRUE, t |-> 0]
IsoTimestamp(t) == [given |-> TRUE, valid |-> TRUE, t |-> t]
BadTimestamp == [given |-> TRUE, valid |-> FALSE, t |-> 0]

\* a start_time / end_time argument
TimeStr(kind, n, unit, t) == [kind |-> kind, n |-> n, unit |-> unit, t |-> t]

UnitSeconds(unit) ==
    CASE unit = "h" -> 3600 [] unit = "d" -> 86400 [] unit = "w" -> 604800 [] OTHER -> 60

\* CassandraTelemetryService._parse_time_range.  kind is "empty", "now",
\* "rel" (-<int><unit>), "relbad" (-<not an int><unit>), "iso" or "bad".
_parse_time_range(time_str, t) ==
    CASE time_str.kind \in {"empty", "now"} -> [raised |-> FALSE, dt |-> t]
      [] time_str.kind = "rel" ->
           [raised |-> FALSE, dt |-> t - time_str.n * UnitSeconds(time_str.unit)]
      [] time_str.kind = "relbad" -> [raised |-> TRUE, dt |-> 0]
      [] time_str.kind = "iso" -> [raised |-> FALSE, dt |-> time_str.t]
      [] OTHER -> [raised |-> FALSE, dt |-> t - 3600]

RateHistInit ==
    [op |-> "none", result |-> FALSE, faulted |-> FALSE, start |-> NoValue, calls |-> 0,
     granted |-> 0, windows |-> 0, denied |-> FALSE, denied_prev |-> FALSE,
     before |-> NoValue, after |-> NoValue]

\* the history record of a request
LastInit ==
    [op |-> "init", api_key |-> NoKey, device_id |-> NoDevice, status |-> 0,
     body |-> None, points |-> <<>>, resolved |-> NoDevice,
     cassandra_success |-> FALSE, nums |-> None, empty_before |-> FALSE,
     failed |-> {}, redis_down |-> FALSE, cache_miss |-> FALSE,
     store_read |-> "none", read |-> FALSE, has_prev |-> FALSE, prev |-> None,
     attempted |-> FALSE, clean |-> FALSE, chain |-> 0,
     had_all |-> FALSE, was_online |-> FALSE,
     data |-> <<>>, timestamp |-> NoValue, start_dt |-> NoValue, end_dt |-> NoValue,
     limit |-> 0, removed |-> 0, retry |-> FALSE, user_id |-> 0, event_type |-> "",
     writes |-> 0, no_body |-> FALSE, bad_timestamp |-> FALSE,
     time_str |-> TimeStr("empty", 0, "", 0), parse_raised |-> FALSE]

----------------------------------------------------------------------------
(* routes/telemetry_postgres.py *)

\* mutant: a key that is not in the cache is rejected, the database is not asked
get_authenticated_device_cache_only(D, ak, api_key, device_id, fr, t) ==
    LET cached == get_device_by_api_key(ak, api_key, fr, t)
        fromCache == IF cached.present THEN query_get(D, cached.v.device_id) ELSE NoDevice
    IN IF api_key = NoKey \/ fromCache = NoDevice
       THEN [device |-> NoDevice, code |-> Unauthorized, apikey |-> ak, resolved |-> NoDevice]
       ELSE IF device_id # NoDevice /\ fromCache # device_id
       THEN [device |-> NoDevice, code |-> Forbidden, apikey |-> ak, resolved |-> fromCache]
       ELSE [device |-> fromCache, code |-> 0, apikey |-> ak, resolved |-> fromCache]

\* mutant: the device check is made on the database path only
get_authenticated_device_hit_unchecked(D, ak, api_key, device_id, fr, t) ==
    LET cached == get_device_by_api_key(ak, api_key, fr, t)
        fromCache == IF cached.present THEN query_get(D, cached.v.device_id) ELSE NoDevice
        fromDb == filter_by_api_key(D, api_key)
    IN IF api_key = NoKey
       THEN [device |-> NoDevice, code |-> Unauthorized, apikey |-> ak, resolved |-> NoDevice]
       ELSE IF fromCache # NoDevice
       THEN [device |-> fromCache, code |-> 0, apikey |-> ak, resolved |-> fromCache]
       ELSE IF fromDb = NoDevice
       THEN [device |-> NoDevice, code |-> Unauthorized, apikey |-> ak, resolved |-> NoDevice]
       ELSE LET ak1 == cache_api_key(ak, api_key, Mapping(D, fromDb), ApiKeyTTL, fr, t).apikey
            IN IF device_id # NoDevice /\ fromDb # device_id
               THEN [device |-> NoDevice, code |-> Forbidden, apikey |-> ak1,
                     resolved |-> fromDb]
               ELSE [device |-> fromDb, code |-> 0, apikey |-> ak1, resolved |-> fromDb]

\* mutant: a key the database does not know is cached as well, mapped to no
\* device
get_authenticated_device_negative_caching(D, ak, api_key, device_id, fr, t) ==
    IF api_key = NoKey
    THEN [device |-> NoDevice, code |-> Unauthorized, apikey |-> ak, resolved |-> NoDevice]
    ELSE
    LET cached == get_device_by_api_key(ak, api_key, fr, t)
        hit == cached.present
        fromCache == IF hit THEN query_get(D, cached.v.device_id) ELSE NoDevice
        fromDb == filter_by_api_key(D, api_key)
    IN IF hit /\ device_id # NoDevice /\ cached.v.device_id # device_id
       THEN [device |-> NoDevice, code |-> Forbidden, apikey |-> ak,
             resolved |-> cached.v.device_id]
       ELSE IF hit /\ fromCache # NoDevice
       THEN [device |-> fromCache, code |-> 0, apikey |-> ak, resolved |-> fromCache]
       ELSE IF fromDb = NoDevice
       THEN [device |-> NoDevice, code |-> Unauthorized,
             apikey |-> cache_api_key(ak, api_key,
                            [device_id |-> NoDevice, user_id |-> 0, status |-> "active"],
                            ApiKeyTTL, fr, t).apikey,
             resolved |-> NoDevice]
       ELSE LET ak1 == cache_api_key(ak, api_key, Mapping(D, fromDb), ApiKeyTTL, fr, t).apikey
            IN IF device_id # NoDevice /\ fromDb # device_id
               THEN [device |-> NoDevice, code |-> Forbidden, apikey |-> ak1,
                     resolved |-> fromDb]
               ELSE [device |-> fromDb, code |-> 0, apikey |-> ak1, resolved |-> fromDb]

\* get_authenticated_device: code 0 is "no error"; resolved is the device
\* the key was resolved to when the decision was taken
get_authenticated_device(D, ak, api_key, device_id, fr, t) ==
    IF api_key = NoKey
    THEN [device |-> NoDevice, code |-> Unauthorized, apikey |-> ak, resolved |-> NoDevice]
    ELSE
    LET cached == get_device_by_api_key(ak, api_key, fr, t)
        hit == cached.present
        fromCache == IF hit THEN query_get(D, cached.v.device_id) ELSE NoDevice
        fromDb == filter_by_api_key(D, api_key)
    IN IF hit /\ device_id # NoDevice /\ cached.v.device_id # device_id
       THEN [device |-> NoDevice, code |-> Forbidden, apikey |-> ak,
             resolved |-> cached.v.device_id]
       ELSE IF hit /\ fromCache # NoDevice
       THEN [device |-> fromCache, code |-> 0, apikey |-> ak, resolved |-> fromCache]
       ELSE IF fromDb = NoDevice
       THEN [device |-> NoDevice, code |-> Unauthorized, apikey |-> ak, resolved |-> NoDevice]
       ELSE LET ak1 == cache_api_key(ak, api_key, Mapping(D, fromDb), ApiKeyTTL, fr, t).apikey
            IN IF device_id # NoDevice /\ fromDb # device_id
               THEN [device |-> NoDevice, code |-> Forbidden, apikey |-> ak1,
                     resolved |-> fromDb]
               ELSE [device |-> fromDb, code |-> 0, apikey |-> ak1, resolved |-> fromDb]

\* the identity step of store_telemetry
ResolveForSubmit(D, ak, api_key, fr, t) ==
    IF api_key = NoKey
    THEN [device |-> NoDevice, apikey |-> ak]
    ELSE
    LET cached == get_device_by_api_key(ak, api_key, fr, t)
        fromDb == filter_by_api_key(D, api_key)
    IN IF cached.present
       THEN [device |-> query_get(D, cached.v.device_id), apikey |-> ak]
       ELSE IF fromDb # NoDevice
       THEN [device |-> fromDb,
             apikey |-> cache_api_key(ak, api_key, Mapping(D, fromDb), ApiKeyTTL, fr, t).apikey]
       ELSE [device |-> NoDevice, apikey |-> ak]

DataMap(data) == [n \in Keys(data) |-> ValueOf(data, n)]

DeviceRows(dd, ld, d) ==
    {r \in dd : r.device_id = d} \cup {r \in ld : r.device_id = d}

Persisted(db) ==
    {<<r.device_id, r.measurement_name, r.numeric_value>> :
        r \in db.device_data \cup db.latest_data}

\* mutant: a failed secondary step fails the request
SubmitStatus_strict(cassandra_success, failed) ==
    IF cassandra_success /\ failed = {} THEN Success ELSE InternalError

\* what store_telemetry answers once the write and the secondary steps are done
SubmitStatus(cassandra_success, failed) ==
    IF cassandra_success THEN Success ELSE InternalError

\* mutant: the cache calls run whatever the write returned
UpdatesCache_always(cassandra_success) == TRUE

\* "if cassandra_success:" in front of the three cache calls
UpdatesCache(cassandra_success) == cassandra_success

\* mutant: the measurements and the timestamp are looked at before the identity
SubmitValidation_identity_last(api_key, device, data, ts) ==
    CASE data = <<>> -> BadRequest
      [] ts.given /\ ~ts.valid -> BadRequest
      [] api_key = NoKey -> Unauthorized
      [] device = NoDevice -> Unauthorized
      [] OTHER -> 0

\* the early returns of store_telemetry once the body is there, in the order
\* of the code; 0 when the request goes on to the write
SubmitValidation(api_key, device, data, ts) ==
    CASE api_key = NoKey -> Unauthorized
      [] device = NoDevice -> Unauthorized
      [] data = <<>> -> BadRequest
      [] ts.given /\ ~ts.valid -> BadRequest
      [] OTHER -> 0

\* POST /api/v1/telemetry with a JSON body that is not empty
store_telemetry(api_key, data, ts, f) ==
    /\ submits < MaxSubmits
    /\ submits' = submits + 1
    /\ LET id == ResolveForSubmit(Device, apikey, api_key, f.redis, now)
           device == id.device
           early == SubmitValidation(api_key, device, data, ts)
       IN IF early # 0
          THEN /\ apikey' = id.apikey
               /\ last' = [LastInit EXCEPT !.op = "submit", !.api_key = api_key,
                                           !.device_id = device, !.resolved = device,
                                           !.status = early, !.data = data,
                                           !.bad_timestamp = (ts.given /\ ~ts.valid),
                                           !.redis_down = (f.redis = RedisCommands),
                                           !.clean = (f = NoFaults)]
               /\ UNCHANGED <<Device, latest, online, lastseen, devinfo, alerts,
                              device_data, latest_data, user_data, event_logs, now,
                              persisted,
                              ratelimit, calls, rlhist, presence>>
          ELSE
          LET timestamp == IF ts.given THEN ts.t ELSE now
              user_id == Device[device].user_id
              w == write_telemetry_with_user(Tables(device_data, latest_data, user_data),
                                             device, user_id, data, timestamp, f.cassandra)
              cassandra_success == w.ok
              c1 == IF UpdatesCache(cassandra_success)
                    THEN cache_latest_telemetry(latest, device, DataMap(data), LatestTTL,
                                                f.redis, now)
                    ELSE [latest |-> latest, ok |-> TRUE]
              c2 == IF UpdatesCache(cassandra_success)
                    THEN set_device_online(online, lastseen, device, f.redis, now)
                    ELSE [online |-> online, lastseen |-> lastseen, ok |-> TRUE]
              c3 == IF UpdatesCache(cassandra_success)
                    THEN update_last_seen(c2.lastseen, device, f.redis, now)
                    ELSE [lastseen |-> lastseen, ok |-> TRUE]
              ev == log_event(event_logs,
                        [event_type |-> "telemetry.submitted", device_id |-> device,
                         user_id |-> user_id, timestamp |-> timestamp,
                         measurements |-> [i \in 1..Len(data) |-> data[i].name],
                         count |-> Len(data)],
                        f.mongo)
              failed == {s \in {"cache", "online", "last_seen", "audit"} :
                            \/ s = "cache" /\ ~c1.ok
                            \/ s = "online" /\ ~c2.ok
                            \/ s = "last_seen" /\ ~c3.ok
                            \/ s = "audit" /\ ~ev.ok}
          IN /\ apikey' = id.apikey
             /\ device_data' = w.db.device_data
             /\ latest_data' = w.db.latest_data
             /\ user_data' = w.db.user_data
             /\ persisted' = persisted \cup Persisted(w.db)
             /\ latest' = c1.latest
             /\ online' = c2.online
             /\ lastseen' = c3.lastseen
             /\ Device' = [Device EXCEPT ![device].last_seen = now]
             /\ event_logs' = ev.event_logs
             /\ last' = [LastInit EXCEPT
                           !.op = "submit", !.api_key = api_key, !.device_id = device,
                           !.resolved = device,
                           !.status = SubmitStatus(cassandra_success, failed),
                           !.cassandra_success = cassandra_success,
                           !.nums = NumericSubset(data),
                           !.empty_before =
                               /\ DeviceRows(device_data, latest_data, device) = {}
                               /\ latest[device] = NoHash,
                           !.failed = failed,
                           !.redis_down = (f.redis = RedisCommands),
                           !.attempted = TRUE,
                           !.clean = (f = NoFaults),
                           !.chain = IF cassandra_success /\ last.chain = 1
                                        /\ last.device_id = device
                                     THEN 2 ELSE 0]
             /\ presence' = IF UpdatesCache(cassandra_success) /\ c2.ok
                             THEN [presence EXCEPT ![device] =
                                     [since |-> now, offline |-> FALSE]]
                             ELSE presence
             /\ UNCHANGED <<devinfo, alerts, now, ratelimit, calls, rlhist>>

\* POST /api/v1/telemetry, whole: "if not data: return ... 400" on the parsed
\* body comes first, before the key is looked at
store_telemetry_json(has_body, api_key, data, ts, f) ==
    IF has_body
    THEN store_telemetry(api_key, data, ts, f)
    ELSE /\ submits < MaxSubmits
         /\ submits' = submits + 1
         /\ last' = [LastInit EXCEPT !.op = "submit", !.api_key = api_key,
                                     !.status = BadRequest, !.no_body = TRUE,
                                     !.redis_down = (f.redis = RedisCommands),
                                     !.clean = (f = NoFaults)]
         /\ UNCHANGED <<Device, apikey, latest, online, lastseen, devinfo, alerts,
                        device_data, latest_data, user_data, event_logs, now,
                        persisted, ratelimit, calls, rlhist, presence>>

\* mutant: the "No telemetry data found" branch is missing
LatestStatus_always_ok(latest_data_) == OK

\* the body of GET latest after the cache and the store were asked
LatestStatus(latest_data_) ==
    IF latest_data_ # None THEN OK ELSE NotFound

\* GET /api/v1/telemetry/<device_id>/latest
get_device_latest_telemetry(api_key, device_id, f) ==
    LET a == get_authenticated_device(Device, apikey, api_key, device_id, f.redis, now)
    IN IF a.code # 0
       THEN /\ apikey' = a.apikey
            /\ last' = [LastInit EXCEPT !.op = "getLatest", !.api_key = api_key,
                                        !.device_id = device_id, !.resolved = a.resolved,
                                        !.status = a.code,
                                        !.redis_down = (f.redis = RedisCommands),
                                        !.clean = (f = NoFaults)]
            /\ UNCHANGED <<Device, latest, online, lastseen, devinfo, alerts, device_data,
                           latest_data, user_data, event_logs, now, submits, persisted,
                           ratelimit, calls, rlhist, presence>>
       ELSE
       LET cached == redis_get_latest_telemetry(latest, device_id, f.redis, now)
           miss == cached = None
           raised == f.cassandra # 0
           latest_data_ == IF miss
                           THEN cassandra_get_latest_telemetry(latest_data, device_id, raised)
                           ELSE cached
           refill == miss /\ latest_data_ # None
       IN /\ apikey' = a.apikey
          /\ latest' = IF refill
                       THEN cache_latest_telemetry(latest, device_id,
                                [n \in DOMAIN latest_data_ |-> PyNum(latest_data_[n])],
                                LatestTTL, f.redis, now).latest
                       ELSE latest
          /\ last' = [LastInit EXCEPT
                        !.op = "getLatest", !.api_key = api_key, !.device_id = device_id,
                        !.resolved = a.resolved,
                        !.status = LatestStatus(latest_data_),
                        !.body = latest_data_,
                        !.redis_down = (f.redis = RedisCommands),
                        !.cache_miss = miss,
                        !.store_read = CASE ~miss -> "none"
                                         [] raised -> "raised"
                                         [] latest_data_ # None -> "found"
                                         [] OTHER -> "empty",
                        !.read = TRUE,
                        !.clean = (f = NoFaults),
                        !.chain = CASE /\ latest_data_ = None
                                       /\ DeviceRows(device_data, latest_data, device_id) = {}
                                       /\ latest[device_id] = NoHash -> 1
                                    [] /\ latest_data_ # None /\ last.chain = 2
                                       /\ last.device_id = device_id -> 3
                                    [] OTHER -> 0]
          /\ UNCHANGED <<Device, online, lastseen, devinfo, alerts, device_data,
                         latest_data, user_data, event_logs, now, submits, persisted,
                         ratelimit, calls, rlhist, presence>>

\* GET /api/v1/telemetry/<device_id>
get_device_telemetry(api_key, device_id, start_time, end_time, limit, f) ==
    LET a == get_authenticated_device(Device, apikey, api_key, device_id, f.redis, now)
    IN /\ apikey' = a.apikey
       /\ UNCHANGED <<Device, latest, online, lastseen, devinfo, alerts, device_data,
                      latest_data, user_data, event_logs, now, submits, persisted,
                      ratelimit, calls, rlhist, presence>>
       /\ IF a.code # 0
          THEN last' = [LastInit EXCEPT !.op = "getRange", !.api_key = api_key,
                                        !.device_id = device_id, !.resolved = a.resolved,
                                        !.status = a.code,
                                        !.redis_down = (f.redis = RedisCommands),
                                        !.clean = (f = NoFaults)]
          ELSE
          LET start == _parse_time_range(start_time, now)
              end == IF end_time.kind = "empty"
                     THEN [raised |-> FALSE, dt |-> now]
                     ELSE _parse_time_range(end_time, now)
              capped == IF limit < MaxLimit THEN limit ELSE MaxLimit
              raised == f.cassandra # 0 \/ start.raised \/ end.raised
              telemetry_data == cassandra_get_device_telemetry(device_data, device_id,
                                    start.dt, end.dt, capped, raised)
          IN last' = [LastInit EXCEPT
                        !.op = "getRange", !.api_key = api_key, !.device_id = device_id,
                        !.resolved = a.resolved, !.status = OK,
                        !.points = telemetry_data,
                        !.store_read = IF raised THEN "raised" ELSE "found",
                        !.read = TRUE,
                        !.redis_down = (f.redis = RedisCommands),
                        !.clean = (f = NoFaults)]

\* RedisCacheService.invalidate_device_cache called on its own.  The history
\* keeps the snapshot of a GET latest of the device that came just before.
InvalidateDeviceCache(device_id, fr) ==
    LET c == invalidate_device_cache(
                 [devinfo |-> devinfo, latest |-> latest, lastseen |-> lastseen,
                  alerts |-> alerts, online |-> online, ok |-> TRUE], device_id, fr)
        follows == last.op = "getLatest" /\ last.device_id = device_id /\ last.status = OK
    IN /\ devinfo' = c.devinfo
       /\ latest' = c.latest
       /\ lastseen' = c.lastseen
       /\ alerts' = c.alerts
       /\ online' = c.online
       /\ last' = [LastInit EXCEPT !.op = "invalidate", !.device_id = device_id,
                                   !.status = IF c.ok THEN OK ELSE InternalError,
                                   !.has_prev = follows,
                                   !.prev = IF follows THEN last.body ELSE None,
                                   !.had_all =
                                       /\ get_device(devinfo, device_id, {}, now).present
                                       /\ redis_get_latest_telemetry(latest, device_id, {},
                                                                     now) # None
                                       /\ get_last_seen(lastseen, device_id, {}) # NoValue
                                       /\ get_alerts(alerts, device_id, {}) # <<>>
                                       /\ is_device_online(online, device_id, {}, now)]
       /\ presence' = IF c.online[device_id] = NoScore
                       THEN [presence EXCEPT ![device_id].since = NoValue]
                       ELSE presence
       /\ UNCHANGED <<Device, apikey, device_data, latest_data, user_data, event_logs,
                      now, submits, persisted, ratelimit, calls, rlhist>>

\* Time passes; Redis drops the keys whose expiry was reached
Tick(dt) ==
    /\ now + dt <= MaxTime
    /\ now' = now + dt
    /\ apikey' = [k \in DOMAIN apikey |->
                    IF Live(apikey[k].exp, now') THEN apikey[k] ELSE NoEntry]
    /\ latest' = [d \in DOMAIN latest |->
                    IF Live(latest[d].exp, now') THEN latest[d] ELSE NoHash]
    /\ devinfo' = [d \in DOMAIN devinfo |->
                    IF Live(devinfo[d].exp, now') THEN devinfo[d] ELSE NoEntry]
    /\ ratelimit' = [k \in DOMAIN ratelimit |->
                       IF Live(ratelimit[k].exp, now') THEN ratelimit[k] ELSE NoCounter]
    /\ last' = [LastInit EXCEPT !.op = "tick"]
    /\ UNCHANGED <<Device, online, lastseen, alerts, device_data, latest_data, user_data,
                   event_logs, submits, persisted, calls, rlhist, presence>>

\* RedisCacheService.set_device_offline called on its own
SetDeviceOffline(device_id, fr) ==
    LET r == set_device_offline(online, device_id, fr)
    IN /\ online' = r.online
       /\ presence' = IF r.ok
                       THEN [presence EXCEPT ![device_id] =
                               [since |-> NoValue, offline |-> TRUE]]
                       ELSE presence
       /\ last' = [LastInit EXCEPT !.op = "set_offline", !.device_id = device_id,
                                   !.status = IF r.ok THEN OK ELSE InternalError,
                                   !.was_online =
                                       is_device_online(online, device_id, {}, now)]
       /\ UNCHANGED <<Device, apikey, latest, lastseen, devinfo, alerts, device_data,
                      latest_data, user_data, event_logs, now, submits, persisted,
                      ratelimit, calls, rlhist>>

\* RedisCacheService.cache_device called on its own, with the default ttl
CacheDevice(device_id, fr) ==
    /\ Device[device_id].exists
    /\ devinfo' = cache_device(devinfo, device_id, Mapping(Device, device_id), ApiKeyTTL,
                               fr, now).devinfo
    /\ last' = [LastInit EXCEPT !.op = "cache_device", !.device_id = device_id]
    /\ UNCHANGED <<Device, apikey, latest, online, lastseen, alerts, device_data,
                   latest_data, user_data, event_logs, now, submits, persisted,
                   ratelimit, calls, rlhist, presence>>

\* RedisCacheService.add_alert called on its own
AddAlert(device_id, alert, fr) ==
    /\ Len(alerts[device_id]) < MaxAlerts
    /\ alerts' = add_alert(alerts, device_id, alert, fr).alerts
    /\ last' = [LastInit EXCEPT !.op = "add_alert", !.device_id = device_id]
    /\ UNCHANGED <<Device, apikey, latest, online, lastseen, devinfo, device_data,
                   latest_data, user_data, event_logs, now, submits, persisted,
                   ratelimit, calls, rlhist, presence>>

\* PUT /api/v1/devices/config by device_id: the status is stored, the
\* cache_device_info call raises AttributeError and is swallowed, the event
\* is logged; the apikey:<key> mapping is left as it is
update_device_info(device_id, status, f) ==
    /\ Device[device_id].exists
    /\ Device[device_id].status # status
    /\ Device' = [Device EXCEPT ![device_id].status =
                     IF status \in DeviceStatuses THEN status ELSE @]
    /\ event_logs' = log_event(event_logs,
                         [event_type |-> "device.config_updated", device_id |-> device_id,
                          user_id |-> Device[device_id].user_id, timestamp |-> now,
                          measurements |-> <<>>, count |-> 0],
                         f.mongo).event_logs
    /\ last' = [LastInit EXCEPT !.op = "update_device_info", !.device_id = device_id,
                                !.status = OK]
    /\ UNCHANGED <<apikey, latest, online, lastseen, devinfo, alerts, device_data,
                   latest_data, user_data, now, submits, persisted,
                   ratelimit, calls, rlhist, presence>>

\* The history of the rate-limit calls: a window opens with the first call
\* made once `window` seconds have passed since the previous one opened
RateRecord(h, result, faulted, before, after, max_requests, window, t) ==
    LET fresh == h.start = NoValue \/ t >= h.start + window
        granted == IF result /\ ~faulted THEN 1 ELSE 0
        inWindow == IF h.calls < max_requests + 1 THEN h.calls + 1 ELSE h.calls
    IN [op |-> "check", result |-> result, faulted |-> faulted,
        start |-> IF fresh THEN t ELSE h.start,
        calls |-> IF fresh THEN 1 ELSE inWindow,
        granted |-> IF fresh THEN granted ELSE h.granted + granted,
        windows |-> IF ~fresh THEN h.windows ELSE IF h.windows < 2 THEN h.windows + 1 ELSE 2,
        denied |-> IF fresh THEN ~result ELSE h.denied \/ ~result,
        denied_prev |-> IF fresh THEN h.denied ELSE h.denied_prev,
        before |-> before, after |-> after]

\* check_rate_limit by a caller on its own: nothing runs between its get
\* and its write
CheckRateLimit(key, max_requests, window, fr) ==
    /\ \A c \in Callers : calls[c] = Idle
    /\ LET r == check_rate_limit(ratelimit, key, max_requests, window, fr, now)
       IN /\ ratelimit' = r.ratelimit
          /\ rlhist' = RateRecord(rlhist, r.result, r.faulted,
                                  RateGet(ratelimit, key, now),
                                  RateGet(r.ratelimit, key, now),
                                  max_requests, window, now)
    /\ UNCHANGED <<Device, apikey, latest, online, lastseen, devinfo, alerts, device_data,
                   latest_data, user_data, event_logs, now, submits, calls, persisted,
                   last, presence>>

\* check_rate_limit of caller c, up to and including its get
CheckRateLimitGet(c, key, max_requests, window, fr) ==
    /\ calls[c] = Idle
    /\ IF "get" \in fr
       THEN /\ rlhist' = RateRecord(rlhist, OnError, TRUE,
                                    RateGet(ratelimit, key, now),
                                    RateGet(ratelimit, key, now),
                                    max_requests, window, now)
            /\ calls' = calls
       ELSE /\ calls' = [calls EXCEPT ![c] =
                           [pc |-> "got", current |-> RateGet(ratelimit, key, now)]]
            /\ rlhist' = rlhist
    /\ UNCHANGED <<Device, apikey, latest, online, lastseen, devinfo, alerts, device_data,
                   latest_data, user_data, event_logs, now, submits, ratelimit, persisted,
                   last, presence>>

\* check_rate_limit of caller c, from the value it read to its return
CheckRateLimitWrite(c, key, max_requests, window, fr) ==
    /\ calls[c].pc = "got"
    /\ LET r == RateDecide(ratelimit, key, calls[c].current, max_requests, window, fr, now)
       IN /\ ratelimit' = r.ratelimit
          /\ rlhist' = RateRecord(rlhist, r.result, r.faulted, calls[c].current,
                                  RateGet(r.ratelimit, key, now),
                                  max_requests, window, now)
    /\ calls' = [calls EXCEPT ![c] = Idle]
    /\ UNCHANGED <<Device, apikey, latest, online, lastseen, devinfo, alerts, device_data,
                   latest_data, user_data, event_logs, now, submits, persisted,
                   last, presence>>

\* routes/users.py delete_user: the hard delete cascades to the devices of
\* the user; no cache entry is touched
delete_user(user_id) ==
    /\ \E d \in DeviceIds : Device[d].exists /\ Device[d].user_id = user_id
    /\ Device' = [d \in DeviceIds |->
                    IF Device[d].user_id = user_id
                    THEN [Device[d] EXCEPT !.exists = FALSE] ELSE Device[d]]
    /\ last' = [LastInit EXCEPT !.op = "delete_user", !.status = OK]
    /\ UNCHANGED <<apikey, latest, online, lastseen, devinfo, alerts, device_data,
                   latest_data, user_data, event_logs, now, submits, persisted,
                   ratelimit, calls, rlhist, presence>>

\* The identity store gives an existing device another API key (the
\* devices.api_key column of the Device model, which no route of the service
\* writes after registration).  No cache entry is touched: nothing in the
\* service calls invalidate_api_key.
change_api_key(device_id, api_key) ==
    /\ Device[device_id].exists
    /\ \A d \in DeviceIds : Device[d].api_key # api_key
    /\ Device' = [Device EXCEPT ![device_id].api_key = api_key]
    /\ last' = [LastInit EXCEPT !.op = "change_key", !.device_id = device_id,
                                !.api_key = api_key, !.status = OK]
    /\ UNCHANGED <<apikey, latest, online, lastseen, devinfo, alerts, device_data,
                   latest_data, user_data, event_logs, now, submits, persisted,
                   ratelimit, calls, rlhist, presence>>

----------------------------------------------------------------------------
(* CassandraTelemetryService called on its own.  start_time and end_time    *)
(* are the strings _parse_time_range takes.                                 *)

\* mutant: the DELETE names the partition only, not the time range
delete_device_data_whole_partition(dd, device_id, start_time, end_time, t, raises) ==
    LET start == _parse_time_range(start_time, t)
        end == _parse_time_range(end_time, t)
    IN IF raises \/ start.raised \/ end.raised
       THEN [device_data |-> dd, ok |-> FALSE]
       ELSE [device_data |-> {r \in dd : r.device_id # device_id}, ok |-> TRUE]

\* CassandraTelemetryService.delete_device_data: a range DELETE on the
\* partition of the device; False when a bound cannot be parsed or the
\* DELETE raises
delete_device_data(dd, device_id, start_time, end_time, t, raises) ==
    LET start == _parse_time_range(start_time, t)
        end == _parse_time_range(end_time, t)
    IN IF raises \/ start.raised \/ end.raised
       THEN [device_data |-> dd, ok |-> FALSE]
       ELSE [device_data |-> {r \in dd : ~(r.device_id = device_id
                                            /\ r.timestamp >= start.dt
                                            /\ r.timestamp <= end.dt)},
             ok |-> TRUE]

\* _parse_time_range(time_str) called on its own
ParseTimeRange(time_str) ==
    LET r == _parse_time_range(time_str, now)
    IN /\ last' = [LastInit EXCEPT !.op = "parse", !.time_str = time_str,
                                   !.parse_raised = r.raised, !.start_dt = r.dt]
       /\ UNCHANGED <<Device, apikey, latest, online, lastseen, devinfo, alerts,
                      device_data, latest_data, user_data, event_logs, now, submits,
                      persisted, ratelimit, calls, rlhist, presence>>

\* write_telemetry(device_id, data, timestamp): timestamp NoValue is the
\* default None, replaced by datetime.utcnow()
WriteTelemetry(device_id, data, timestamp, failAt) ==
    LET ts == IF timestamp = NoValue THEN now ELSE timestamp
        w == write_telemetry(Tables(device_data, latest_data, user_data),
                             device_id, data, ts, failAt)
    IN /\ device_data' = w.db.device_data
       /\ latest_data' = w.db.latest_data
       /\ last' = [LastInit EXCEPT
                     !.op = "write", !.device_id = device_id, !.data = data,
                     !.timestamp = ts, !.cassandra_success = w.ok,
                     !.attempted = (w.calls > 0), !.clean = (failAt = 0),
                     !.retry = /\ last.op = "write" /\ last.cassandra_success
                               /\ last.device_id = device_id /\ last.data = data
                               /\ last.timestamp = ts]
       /\ UNCHANGED <<Device, apikey, latest, online, lastseen, devinfo, alerts,
                      user_data, event_logs, now, submits, persisted, ratelimit,
                      calls, rlhist, presence>>

\* get_device_telemetry(device_id, start_time, end_time, limit)
GetDeviceTelemetry(device_id, start_time, end_time, limit, raises) ==
    LET start == _parse_time_range(start_time, now)
        end == IF end_time.kind = "empty"
               THEN [raised |-> FALSE, dt |-> now]
               ELSE _parse_time_range(end_time, now)
        raised == raises \/ start.raised \/ end.raised
    IN /\ last' = [LastInit EXCEPT
                     !.op = "range", !.device_id = device_id,
                     !.start_dt = start.dt, !.end_dt = end.dt, !.limit = limit,
                     !.points = cassandra_get_device_telemetry(device_data, device_id,
                                    start.dt, end.dt, limit, raised),
                     !.store_read = IF raised THEN "raised" ELSE "found",
                     !.read = TRUE]
       /\ UNCHANGED <<Device, apikey, latest, online, lastseen, devinfo, alerts,
                      device_data, latest_data, user_data, event_logs, now, submits,
                      persisted, ratelimit, calls, rlhist, presence>>

\* mutant: the delete clears the latest_data rows of the device as well
DeleteDeviceData_with_latest(device_id, start_time, end_time, raises) ==
    LET r == delete_device_data(device_data, device_id, start_time, end_time, now, raises)
    IN /\ device_data' = r.device_data
       /\ latest_data' = IF r.ok THEN {x \in latest_data : x.device_id # device_id}
                          ELSE latest_data
       /\ last' = [LastInit EXCEPT
                     !.op = "delete", !.device_id = device_id,
                     !.start_dt = _parse_time_range(start_time, now).dt,
                     !.end_dt = _parse_time_range(end_time, now).dt,
                     !.cassandra_success = r.ok,
                     !.removed = Cardinality(device_data \ r.device_data)]
       /\ UNCHANGED <<Device, apikey, latest, online, lastseen, devinfo, alerts,
                      user_data, event_logs, now, submits, persisted,
                      ratelimit, calls, rlhist, presence>>

\* delete_device_data(device_id, start_time, end_time)
DeleteDeviceData(device_id, start_time, end_time, raises) ==
    LET r == delete_device_data(device_data, device_id, start_time, end_time, now, raises)
    IN /\ device_data' = r.device_data
       /\ last' = [LastInit EXCEPT
                     !.op = "delete", !.device_id = device_id,
                     !.start_dt = _parse_time_range(start_time, now).dt,
                     !.end_dt = _parse_time_range(end_time, now).dt,
                     !.cassandra_success = r.ok,
                     !.removed = Cardinality(device_data \ r.device_data)]
       /\ UNCHANGED <<Device, apikey, latest, online, lastseen, devinfo, alerts,
                      latest_data, user_data, event_logs, now, submits, persisted,
                      ratelimit, calls, rlhist, presence>>

----------------------------------------------------------------------------
(* MongoDBService called on its own *)

\* log_event(event): a missing timestamp (NoValue) becomes the current time
LogEvent(event_type, device_id, user_id, timestamp, raises) ==
    LET ev == log_event(event_logs,
                  [event_type |-> event_type, device_id |-> device_id,
                   user_id |-> user_id,
                   timestamp |-> IF timestamp = NoValue THEN now ELSE timestamp,
                   measurements |-> <<>>, count |-> 0],
                  raises)
    IN /\ event_logs' = ev.event_logs
       /\ last' = [LastInit EXCEPT !.op = "log_event", !.device_id = device_id,
                                   !.user_id = user_id, !.event_type = event_type,
                                   !.attempted = TRUE, !.clean = ev.ok]
       /\ UNCHANGED <<Device, apikey, latest, online, lastseen, devinfo, alerts, device_data,
                      latest_data, user_data, now, submits, persisted, ratelimit,
                      calls, rlhist, presence>>

\* the history record of an event query
EventQuery(op, result, limit, raises) ==
    [LastInit EXCEPT !.op = op, !.points = result, !.limit = limit, !.read = TRUE,
                     !.store_read = IF raises THEN "raised" ELSE "found"]

GetDeviceEvents(device_id, limit, raises) ==
    /\ last' = [EventQuery("get_device_events",
                           get_device_events(event_logs, device_id, limit, raises),
                           limit, raises) EXCEPT !.device_id = device_id]
    /\ UNCHANGED <<Device, apikey, latest, online, lastseen, devinfo, alerts, device_data,
                      latest_data, user_data, event_logs, now, submits, persisted, ratelimit,
                      calls, rlhist, presence>>

GetUserEvents(user_id, limit, raises) ==
    /\ last' = [EventQuery("get_user_events",
                           get_user_events(event_logs, user_id, limit, raises),
                           limit, raises) EXCEPT !.user_id = user_id]
    /\ UNCHANGED <<Device, apikey, latest, online, lastseen, devinfo, alerts, device_data,
                      latest_data, user_data, event_logs, now, submits, persisted, ratelimit,
                      calls, rlhist, presence>>

GetEventsByType(event_type, limit, raises) ==
    /\ last' = [EventQuery("get_events_by_type",
                           get_events_by_type(event_logs, event_type, limit, raises),
                           limit, raises) EXCEPT !.event_type = event_type]
    /\ UNCHANGED <<Device, apikey, latest, online, lastseen, devinfo, alerts, device_data,
                      latest_data, user_data, event_logs, now, submits, persisted, ratelimit,
                      calls, rlhist, presence>>

GetEvents(start_time, end_time, limit, raises) ==
    /\ last' = [EventQuery("get_events",
                           get_events(event_logs, start_time, end_time, limit, raises),
                           limit, raises)
                  EXCEPT !.start_dt = start_time, !.end_dt = end_time]
    /\ UNCHANGED <<Device, apikey, latest, online, lastseen, devinfo, alerts, device_data,
                      latest_data, user_data, event_logs, now, submits, persisted, ratelimit,
                      calls, rlhist, presence>>

----------------------------------------------------------------------------
(* store_telemetry of concurrent requests: the handler of caller c up to the *)
(* return of the durable write, and from there to its response.             *)

SubmitSteps == {"submit_write", "submit_cache"}

\* store_telemetry of caller c, from authentication to the return of
\* write_telemetry_with_user
StoreTelemetryWrite(c, api_key, data, ts, f) ==
    /\ calls[c].pc = "idle"
    /\ submits < MaxSubmits
    /\ submits' = submits + 1
    /\ LET id == ResolveForSubmit(Device, apikey, api_key, f.redis, now)
           device == id.device
           early == SubmitValidation(api_key, device, data, ts)
       IN IF early # 0
          THEN /\ apikey' = id.apikey
               /\ last' = [LastInit EXCEPT !.op = "submit", !.api_key = api_key,
                                           !.device_id = device, !.resolved = device,
                                           !.status = early, !.clean = (f = NoFaults)]
               /\ UNCHANGED <<device_data, latest_data, user_data, persisted, calls>>
          ELSE
          LET timestamp == IF ts.given THEN ts.t ELSE now
              user_id == Device[device].user_id
              w == write_telemetry_with_user(Tables(device_data, latest_data, user_data),
                                             device, user_id, data, timestamp, f.cassandra)
              before == IF last.op \in SubmitSteps THEN last.writes ELSE 0
          IN /\ apikey' = id.apikey
             /\ device_data' = w.db.device_data
             /\ latest_data' = w.db.latest_data
             /\ user_data' = w.db.user_data
             /\ persisted' = persisted \cup Persisted(w.db)
             /\ calls' = [calls EXCEPT ![c] =
                            [pc |-> "written",
                             current |-> [device |-> device, data |-> data,
                                          timestamp |-> timestamp,
                                          cassandra_success |-> w.ok]]]
             /\ last' = [LastInit EXCEPT
                           !.op = "submit_write", !.api_key = api_key,
                           !.device_id = device, !.resolved = device,
                           !.cassandra_success = w.ok,
                           !.nums = IF w.ok THEN NumericSubset(data)
                                    ELSE IF last.op \in SubmitSteps THEN last.nums ELSE None,
                           !.attempted = TRUE,
                           !.clean = /\ f = NoFaults
                                     /\ last.op \in SubmitSteps => last.clean,
                           !.writes = IF w.ok THEN before + 1 ELSE before]
    /\ UNCHANGED <<Device, latest, online, lastseen, devinfo, alerts, event_logs, now,
                   ratelimit, rlhist, presence>>

\* store_telemetry of caller c, from the cache calls to the response
StoreTelemetryCache(c, f) ==
    /\ calls[c].pc = "written"
    /\ LET device == calls[c].current.device
           data == calls[c].current.data
           timestamp == calls[c].current.timestamp
           cassandra_success == calls[c].current.cassandra_success
           c1 == IF UpdatesCache(cassandra_success)
                 THEN cache_latest_telemetry(latest, device, DataMap(data), LatestTTL,
                                             f.redis, now)
                 ELSE [latest |-> latest, ok |-> TRUE]
           c2 == IF UpdatesCache(cassandra_success)
                 THEN set_device_online(online, lastseen, device, f.redis, now)
                 ELSE [online |-> online, lastseen |-> lastseen, ok |-> TRUE]
           c3 == IF UpdatesCache(cassandra_success)
                 THEN update_last_seen(c2.lastseen, device, f.redis, now)
                 ELSE [lastseen |-> lastseen, ok |-> TRUE]
           ev == log_event(event_logs,
                     [event_type |-> "telemetry.submitted", device_id |-> device,
                      user_id |-> Device[device].user_id, timestamp |-> timestamp,
                      measurements |-> [i \in 1..Len(data) |-> data[i].name],
                      count |-> Len(data)],
                     f.mongo)
           failed == {s \in {"cache", "online", "last_seen", "audit"} :
                         \/ s = "cache" /\ ~c1.ok
                         \/ s = "online" /\ ~c2.ok
                         \/ s = "last_seen" /\ ~c3.ok
                         \/ s = "audit" /\ ~ev.ok}
       IN /\ latest' = c1.latest
          /\ online' = c2.online
          /\ lastseen' = c3.lastseen
          /\ Device' = [Device EXCEPT ![device].last_seen = now]
          /\ event_logs' = ev.event_logs
          /\ last' = [LastInit EXCEPT
                        !.op = "submit_cache", !.device_id = device, !.resolved = device,
                        !.status = SubmitStatus(cassandra_success, failed),
                        !.cassandra_success = cassandra_success,
                        !.nums = IF last.op \in SubmitSteps THEN last.nums ELSE None,
                        !.failed = failed, !.attempted = TRUE,
                        !.clean = /\ f = NoFaults
                                  /\ last.op \in SubmitSteps => last.clean,
                        !.writes = IF last.op \in SubmitSteps THEN last.writes ELSE 0]
          /\ presence' = IF UpdatesCache(cassandra_success) /\ c2.ok
                          THEN [presence EXCEPT ![device] =
                                  [since |-> now, offline |-> FALSE]]
                          ELSE presence
    /\ calls' = [calls EXCEPT ![c] = Idle]
    /\ UNCHANGED <<apikey, devinfo, alerts, device_data, latest_data, user_data, now,
                   submits, persisted, ratelimit, rlhist>>

----------------------------------------------------------------------------
(* get_device_latest_telemetry of a concurrent request: the handler of      *)
(* caller c up to the return of the store read, and from the refill of the  *)
(* cache to its response.                                                   *)

\* GET latest of caller c, from authentication to the read of the store; a
\* request with nothing to put in the cache answers in this step
GetLatestRead(c, api_key, device_id, f) ==
    /\ calls[c].pc = "idle"
    /\ LET a == get_authenticated_device(Device, apikey, api_key, device_id, f.redis, now)
           cached == redis_get_latest_telemetry(latest, device_id, f.redis, now)
           miss == cached = None
           raised == f.cassandra # 0
           latest_data_ == IF miss
                           THEN cassandra_get_latest_telemetry(latest_data, device_id, raised)
                           ELSE cached
           refill == miss /\ latest_data_ # None
       IN /\ apikey' = a.apikey
          /\ IF a.code # 0
             THEN /\ last' = [LastInit EXCEPT !.op = "getLatest", !.api_key = api_key,
                                              !.device_id = device_id,
                                              !.resolved = a.resolved, !.status = a.code,
                                              !.clean = (f = NoFaults)]
                  /\ calls' = calls
             ELSE IF ~refill
             THEN /\ last' = [LastInit EXCEPT
                                !.op = "getLatest", !.api_key = api_key,
                                !.device_id = device_id, !.resolved = a.resolved,
                                !.status = LatestStatus(latest_data_),
                                !.body = latest_data_, !.cache_miss = miss,
                                !.read = TRUE, !.clean = (f = NoFaults)]
                  /\ calls' = calls
             ELSE /\ last' = [LastInit EXCEPT
                                !.op = "latest_read", !.api_key = api_key,
                                !.device_id = device_id, !.resolved = a.resolved,
                                !.body = latest_data_, !.cache_miss = TRUE,
                                !.store_read = "found", !.clean = (f = NoFaults)]
                  /\ calls' = [calls EXCEPT ![c] =
                                 [pc |-> "read",
                                  current |-> [api_key |-> api_key, device_id |-> device_id,
                                               latest_data_ |-> latest_data_]]]
    /\ UNCHANGED <<Device, latest, online, lastseen, devinfo, alerts, device_data,
                   latest_data, user_data, event_logs, now, submits, persisted,
                   ratelimit, rlhist, presence>>

\* GET latest of caller c, from "Cache it for next time" to the response
GetLatestFill(c, f) ==
    /\ calls[c].pc = "read"
    /\ LET device_id == calls[c].current.device_id
           latest_data_ == calls[c].current.latest_data_
       IN /\ latest' = cache_latest_telemetry(latest, device_id,
                            [n \in DOMAIN latest_data_ |-> PyNum(latest_data_[n])],
                            LatestTTL, f.redis, now).latest
          /\ last' = [LastInit EXCEPT
                        !.op = "getLatest", !.api_key = calls[c].current.api_key,
                        !.device_id = device_id, !.resolved = device_id,
                        !.status = LatestStatus(latest_data_), !.body = latest_data_,
                        !.cache_miss = TRUE, !.store_read = "found", !.read = TRUE,
                        !.clean = (f = NoFaults)]
    /\ calls' = [calls EXCEPT ![c] = Idle]
    /\ UNCHANGED <<Device, apikey, online, lastseen, devinfo, alerts, device_data,
                   latest_data, user_data, event_logs, now, submits, persisted,
                   ratelimit, rlhist, presence>>

----------------------------------------------------------------------------
(* The latest-telemetry methods of RedisCacheService called on their own *)

CacheLatestTelemetry(device_id, telemetry, fr) ==
    LET r == cache_latest_telemetry(latest, device_id, telemetry, LatestTTL, fr, now)
    IN /\ latest' = r.latest
       /\ last' = [LastInit EXCEPT !.op = "cache_latest_telemetry",
                                   !.device_id = device_id, !.body = telemetry,
                                   !.cassandra_success = r.ok, !.clean = (fr = {})]
       /\ UNCHANGED <<Device, apikey, online, lastseen, devinfo, alerts, device_data,
                      latest_data, user_data, event_logs, now, submits, persisted,
                      ratelimit, calls, rlhist, presence>>

UpdateMeasurement(device_id, measurement_name, value, fr) ==
    LET r == update_measurement(latest, device_id, measurement_name, value, fr, now)
    IN /\ latest' = r.latest
       /\ last' = [LastInit EXCEPT !.op = "update_measurement",
                                   !.device_id = device_id,
                                   !.body = [n \in {measurement_name} |-> value],
                                   !.cassandra_success = r.ok, !.clean = (fr = {}),
                                   !.empty_before =
                                       redis_get_latest_telemetry(latest, device_id, {}, now)
                                           = None]
       /\ UNCHANGED <<Device, apikey, online, lastseen, devinfo, alerts, device_data,
                      latest_data, user_data, event_logs, now, submits, persisted,
                      ratelimit, calls, rlhist, presence>>

----------------------------------------------------------------------------
(* Initial state: two registered devices, empty stores and an empty cache *)

Init ==
    /\ Device = [d \in DeviceIds |->
                   [exists |-> TRUE, api_key |-> IF d = 1 THEN "k1" ELSE "k2",
                    user_id |-> d, status |-> "active", last_seen |-> NoValue]]
    /\ apikey = [k \in PresentedKeys |-> NoEntry]
    /\ latest = [d \in DeviceIds |-> NoHash]
    /\ online = [d \in DeviceIds |-> NoScore]
    /\ lastseen = [d \in DeviceIds |-> NoValue]
    /\ devinfo = [d \in DeviceIds |-> NoEntry]
    /\ alerts = [d \in DeviceIds |-> <<>>]
    /\ device_data = {}
    /\ latest_data = {}
    /\ user_data = {}
    /\ event_logs = <<>>
    /\ now = 1
    /\ submits = 0
    /\ ratelimit = [k \in RateKeys |-> NoCounter]
    /\ calls = [c \in Callers |-> Idle]
    /\ persisted = {}
    /\ last = LastInit
    /\ rlhist = RateHistInit
    /\ presence = [d \in DeviceIds |-> [since |-> NoValue, offline |-> FALSE]]

----------------------------------------------------------------------------
(* Read-path specification: one device submits maps of every kind of value, *)
(* reads them back through the cache and the store, and the cache is       *)
(* invalidated.                                                             *)

Num1 == PyNum(1)

\* every one-item dict, and temperature with a second item of every kind
DataInputs ==
    {<<Item(n, v)>> : n \in MeasurementNames, v \in PyValues}
    \cup {<<Item("temperature", PyNum(x)), Item("humidity", v)>> :
            x \in 1..MaxVal, v \in PyValues}

RedisDown == Faults(RedisCommands, 0, FALSE)
CassandraDown == Faults({}, 1, FALSE)

ReadFaults ==
    {Faults(fr, c, FALSE) : fr \in {{}, {"hgetall"}, {"expire"}, RedisCommands}, c \in {0, 1}}

SubmitValid ==
    \E data \in DataInputs, f \in {NoFaults, CassandraDown} :
        store_telemetry("k1", data, NoTimestamp, f)

GetLatest ==
    \E r \in {<<"k1", 1>>, <<"k1", 2>>, <<"zz", 1>>}, f \in ReadFaults :
        get_device_latest_telemetry(r[1], r[2], f)

Invalidate ==
    \E fr \in {{}, {"zrem"}, {"delete"}} : InvalidateDeviceCache(1, fr)

Next ==
    \/ SubmitValid
    \/ GetLatest
    \/ Invalidate

Spec == Init /\ [][Next]_vars

----------------------------------------------------------------------------
(* Failure specification: every combination of failing secondary steps and  *)
(* every failure point of the durable write of a submit.                    *)

FaultData ==
    {<<Item("temperature", PyNum(x))>> : x \in 1..MaxVal}
    \cup {<<Item("temperature", Num1), Item("humidity", PyStr("ok"))>>}

\* the executes of a write of one numeric measurement
WriteExecutes == 3

\* Redis failures of a submit: any subset of the three cache steps, the
\* expire alone, or Redis down altogether
SubmitRedisFaults ==
    (SUBSET {"hset", "zadd", "set"}) \cup {{"expire"}, RedisCommands}

SubmitFaults ==
    {Faults(fr, 0, m) : fr \in SubmitRedisFaults, m \in BOOLEAN}
    \cup {Faults(fr, c, m) : fr \in {{}, RedisCommands}, c \in 1..WriteExecutes, m \in BOOLEAN}

SubmitFaulty ==
    \E data \in FaultData, f \in SubmitFaults : store_telemetry("k1", data, NoTimestamp, f)

\* a submit that fails validation
SubmitRejected ==
    \E r \in {<<"zz", 1, NoTimestamp>>, <<NoKey, 1, NoTimestamp>>,
              <<"k1", 0, NoTimestamp>>, <<"k1", 1, BadTimestamp>>},
       f \in {NoFaults, Faults(RedisCommands, 1, TRUE)} :
        store_telemetry(r[1], IF r[2] = 0 THEN <<>> ELSE <<Item("temperature", Num1)>>,
                        r[3], f)

Clock == Tick(LatestTTL)

NextFault ==
    \/ SubmitFaulty
    \/ SubmitRejected
    \/ Clock

SpecFault == Init /\ [][NextFault]_vars

----------------------------------------------------------------------------
(* Authorization specification: both devices and every key, with users     *)
(* (and their devices) being deleted.                                       *)

AuthFaults == {NoFaults, Faults({"get"}, 0, FALSE), Faults({"setex"}, 0, FALSE), RedisDown}

AuthSubmit ==
    \E k \in ApiKeys, f \in {NoFaults, RedisDown} :
        store_telemetry(k, <<Item("temperature", Num1)>>, NoTimestamp, f)

AuthGetLatest ==
    \E k \in PresentedKeys \cup {NoKey}, d \in DeviceIds, f \in AuthFaults :
        get_device_latest_telemetry(k, d, f)

AuthGetRange ==
    \E k \in PresentedKeys \cup {NoKey}, d \in DeviceIds, f \in AuthFaults :
        get_device_telemetry(k, d, TimeStr("rel", 1, "h", 0), TimeStr("empty", 0, "", 0),
                             DefaultLimit, f)

DeleteUser == \E u \in DeviceIds : delete_user(u)

NextAuth ==
    \/ AuthSubmit
    \/ AuthGetLatest
    \/ AuthGetRange
    \/ DeleteUser

SpecAuth == Init /\ [][NextAuth]_vars

----------------------------------------------------------------------------
(* Status specification: devices change their status between submits, so   *)
(* that the cached API-key mapping goes stale.                              *)

StatusSubmit ==
    \E k \in ApiKeys, f \in {NoFaults, Faults({"get"}, 0, FALSE), RedisDown} :
        store_telemetry(k, <<Item("temperature", Num1)>>, NoTimestamp, f)

StatusUpdate ==
    /\ Len(event_logs) < MaxEvents
    /\ \E d \in DeviceIds, st \in DeviceStatuses : update_device_info(d, st, NoFaults)

NextStatus ==
    \/ StatusSubmit
    \/ StatusUpdate

SpecStatus == Init /\ [][NextStatus]_vars

----------------------------------------------------------------------------
(* Rate-limit specification, one caller: each check_rate_limit call runs    *)
(* from its get to its return with nothing in between, and the clock moves  *)
(* between calls.                                                           *)

RateCall ==
    \E k \in RateKeys : CheckRateLimit(k, MaxRequests, Window, {})

RateClock ==
    /\ now < MaxRateTime
    /\ Tick(1)

NextRate ==
    \/ RateCall
    \/ RateClock

SpecRate == Init /\ [][NextRate]_vars

----------------------------------------------------------------------------
(* Rate-limit specification with failures: one caller, and any one of the   *)
(* Redis commands of a call may raise.                                      *)

RateFaults == {{}, {"get"}, {"setex"}, {"incr"}}

RateCallFaulty ==
    \E k \in RateKeys, fr \in RateFaults : CheckRateLimit(k, MaxRequests, Window, fr)

NextRateFault ==
    \/ RateCallFaulty
    \/ RateClock

SpecRateFault == Init /\ [][NextRateFault]_vars

----------------------------------------------------------------------------
(* Rate-limit specification, concurrent callers: the get and the write of   *)
(* a call are separate steps, other callers and the expiry of the key run   *)
(* between them, and any of the Redis commands may raise.                   *)

RateRead ==
    \E c \in Callers, k \in RateKeys, fr \in RateFaults :
        CheckRateLimitGet(c, k, MaxRequests, Window, fr)

RateWrite ==
    \E c \in Callers, k \in RateKeys, fr \in RateFaults :
        CheckRateLimitWrite(c, k, MaxRequests, Window, fr)

NextRateConc ==
    \/ RateRead
    \/ RateWrite
    \/ RateClock

SpecRateConc == Init /\ [][NextRateConc]_vars

----------------------------------------------------------------------------
(* Presence specification: submits mark devices online, time passes and    *)
(* devices are taken offline.  Invalidation specification: the cache       *)
(* entries of a device are written and invalidated.                         *)

PresenceFaults == {NoFaults, Faults({"zadd"}, 0, FALSE)}

PresenceSubmit ==
    \E k \in ApiKeys, f \in PresenceFaults :
        store_telemetry(k, <<Item("temperature", Num1)>>, NoTimestamp, f)

PresenceOffline ==
    \E d \in DeviceIds, fr \in {{}, {"zrem"}} : SetDeviceOffline(d, fr)

PresenceInvalidate ==
    \E d \in DeviceIds, fr \in {{}, {"zrem"}, {"delete"}} : InvalidateDeviceCache(d, fr)

PresenceCache == CacheDevice(1, {})

PresenceAlert == AddAlert(1, "high", {})

\* one second before the end of the online window, and the window itself
PresenceClock ==
    \E dt \in {OnlineWindow - 1, OnlineWindow} : Tick(dt)

NextPresence ==
    \/ PresenceSubmit
    \/ PresenceOffline
    \/ PresenceClock

SpecPresence == Init /\ [][NextPresence]_vars

NextInvalidate ==
    \/ PresenceSubmit
    \/ PresenceOffline
    \/ PresenceInvalidate
    \/ PresenceCache
    \/ PresenceAlert

SpecInvalidate == Init /\ [][NextInvalidate]_vars

----------------------------------------------------------------------------
(* Properties of the submit path *)

SecondarySteps == {"cache", "online", "last_seen", "audit"}

C2_FailedWriteLeavesCache ==
    [][(last'.op = "submit" /\ last'.attempted /\ ~last'.cassandra_success)
          => /\ last'.status = InternalError
             /\ latest' = latest
             /\ online' = online
             /\ lastseen' = lastseen]_vars

\* a failed write for a device whose cache entries exist
C2_Witness ==
    /\ last.op = "submit"
    /\ last.attempted
    /\ ~last.cassandra_success
    /\ last.status = InternalError
    /\ latest[last.device_id] # NoHash
    /\ online[last.device_id] # NoScore
    /\ lastseen[last.device_id] # NoValue

\* C3 as claimed: a submit whose durable write fails appends no
\* telemetry.submitted event.
C3_NoAuditOnFailedWrite ==
    [][(last'.op = "submit" /\ last'.attempted /\ ~last'.cassandra_success)
          => event_logs' = event_logs]_vars

----------------------------------------------------------------------------
(* Properties of the read path *)

\* the key is the key of the device in the identity store
Authorized(api_key, device_id) ==
    /\ device_id \in DeviceIds
    /\ Device[device_id].exists
    /\ Device[device_id].api_key = api_key

\* the step is a GET latest of the device of the request before it, with the
\* same key, and no call failed in it
ReadsBack ==
    /\ last'.op = "getLatest"
    /\ last'.device_id = last.device_id
    /\ Authorized(last'.api_key, last'.device_id)
    /\ last'.clean

\* m1 is part of m2
SubMap(m1, m2) == \A n \in DOMAIN m1 : n \in DOMAIN m2 /\ m2[n] = m1[n]

\* C4 as claimed: a successful submit with a numeric measurement followed
\* at once by GET latest returns exactly the numeric subset of that submit.
C4_LatestIsNumericSubset ==
    [][(last.op = "submit" /\ last.status = Success /\ last.nums # None /\ ReadsBack)
          => (last'.status = OK /\ last'.body = last.nums)]_vars

\* C5 as claimed: every (measurement, value) pair GET latest returns for a
\* device was persisted to the time-series store for that device before.
C5_SnapshotWasPersisted ==
    (last.op = "getLatest" /\ last.status = OK)
        => \A n \in DOMAIN last.body : <<last.device_id, n, last.body[n]>> \in persisted

\* the device has no row in the store and no latest-telemetry cache entry
NoTelemetry(d) == DeviceRows(device_data, latest_data, d) = {} /\ latest[d] = NoHash

\* C6: GET latest writes the cache only after a miss on which the store
\* returned a snapshot; for a device with no telemetry it answers NotFound
\* and leaves the cache entry absent; and the first successful submit to
\* such a device is returned by the GET latest that follows it (unless the
\* store read of that request fails).
C6_NoNegativeCaching ==
    [][/\ (last'.op = "getLatest" /\ latest' # latest)
            => (last'.cache_miss /\ last'.store_read = "found")
       /\ (last'.op = "getLatest" /\ Authorized(last'.api_key, last'.device_id)
             /\ NoTelemetry(last'.device_id))
            => (last'.status = NotFound /\ latest'[last'.device_id] = NoHash)
       /\ (/\ last.op = "submit" /\ last.status = Success /\ last.empty_before
           /\ last.nums # None
           /\ last'.op = "getLatest" /\ last'.device_id = last.device_id
           /\ Authorized(last'.api_key, last'.device_id)
           /\ last'.store_read # "raised")
            => (last'.status = OK /\ SubMap(last.nums, last'.body))]_vars

\* NotFound for a device with no telemetry, then its first successful
\* submit, then a GET latest that returns a snapshot
C6_Witness ==
    /\ last.op = "getLatest"
    /\ last.chain = 3
    /\ last.status = OK
    /\ latest[last.device_id] # NoHash

\* C7 as claimed: GET latest, then a successful invalidate_device_cache of
\* the device, then GET latest again returns the same snapshot.
C7_CacheMissTransparency ==
    [][(last.op = "invalidate" /\ last.status = OK /\ last.has_prev /\ ReadsBack)
          => (last'.status = OK /\ last'.body = last.prev)]_vars

\* C8 as claimed: a GET latest that misses the cache and whose store read
\* fails answers InternalError.
C8_StoreFailureIsInternalError ==
    (last.op = "getLatest" /\ last.cache_miss /\ last.store_read = "raised")
        => last.status = InternalError

\* C9: with Redis unavailable, GET latest of an authorized device answers
\* what get_latest_telemetry of the time-series store returns for it.
C9_CacheDownReadsStore ==
    (last.op = "getLatest" /\ last.redis_down /\ Authorized(last.api_key, last.device_id))
        => LET snapshot == cassandra_get_latest_telemetry(latest_data, last.device_id,
                                                          last.store_read = "raised")
           IN /\ last.body = snapshot
              /\ last.status = IF snapshot = None THEN NotFound ELSE OK

\* Redis is down, the cache holds an entry for the device, the answer is
\* the store's snapshot
C9_Witness ==
    /\ last.op = "getLatest"
    /\ last.redis_down
    /\ last.status = OK
    /\ last.body # None
    /\ latest[last.device_id] # NoHash
    /\ latest[last.device_id].h # [n \in DOMAIN last.body |-> ToStr(last.body[n])]

\* C10: a GET latest or GET range whose key resolves to a device other than
\* the requested one answers Forbidden and reads no telemetry.
C10_MismatchIsForbidden ==
    (/\ last.op \in {"getLatest", "getRange"}
     /\ \/ last.resolved \notin {NoDevice, last.device_id}
        \/ filter_by_api_key(Device, last.api_key) \notin {NoDevice, last.device_id})
        => /\ last.status = Forbidden
           /\ ~last.read
           /\ last.body = None
           /\ last.points = <<>>

\* Forbidden on a cached key, for a device that has telemetry
C10_Witness ==
    /\ last.op \in {"getLatest", "getRange"}
    /\ last.status = Forbidden
    /\ last.resolved \notin {NoDevice, last.device_id}
    /\ apikey[last.api_key].present
    /\ DeviceRows(device_data, latest_data, last.device_id) # {}

----------------------------------------------------------------------------
(* Properties of the identity step *)

\* the request just handled presented the key of device d: a submit, or a
\* read of d itself
PresentsKeyOf(d, l) ==
    /\ l.api_key = Device[d].api_key
    /\ \/ l.op = "submit"
       \/ l.op \in {"getLatest", "getRange"} /\ l.device_id = d

EmptyApiKeyCache == [k \in PresentedKeys |-> NoEntry]

\* C12: the API-key cache grants an inactive device nothing: whenever a
\* submit is accepted for a device whose stored status is inactive at request
\* time, the identity store alone, asked with an empty cache, resolves the
\* key to that same device.
C12_StaleMappingGrantsNothing ==
    [][(/\ last'.op = "submit"
        /\ last'.status = Success
        /\ Device[last'.device_id].status = "inactive")
          => ResolveForSubmit(Device, EmptyApiKeyCache, last'.api_key, {}, now).device
                 = last'.device_id]_vars

\* device 1 was deactivated after apikey:k1 was cached as active, and its
\* submit went through the cache hit
C12_Witness ==
    /\ last.op = "submit"
    /\ last.api_key = "k1"
    /\ last.status = Success
    /\ last.clean
    /\ Device[1].status = "inactive"
    /\ apikey["k1"].present
    /\ apikey["k1"].v.status = "active"

----------------------------------------------------------------------------
(* Properties of the rate limiter *)

GrantedNow ==
    IF rlhist.start # NoValue /\ now < rlhist.start + Window THEN rlhist.granted ELSE 0

C15_AtMostNPerWindow ==
    /\ rlhist.granted <= MaxRequests
    /\ \A k \in RateKeys : RateGet(ratelimit, k, now) <= MaxRequests

\* C16: every rate-limit counter that exists carries an expiry, at most
\* Window seconds ahead, under every interleaving of the calls with the
\* expiry of the key; so a denied key is permitted again once its window has
\* passed.
C16_CounterAlwaysExpires ==
    \A k \in RateKeys :
        ratelimit[k].present =>
            /\ ratelimit[k].exp # NoExpiry
            /\ ratelimit[k].exp <= now + Window

\* C17: a check_rate_limit call in which a Redis command raised returns
\* true, whatever the counter holds.
C17_FailOpen ==
    (rlhist.op = "check" /\ rlhist.faulted) => rlhist.result

\* the get raised while the counter stood at the limit, and the call was
\* let through
C17_Witness ==
    /\ rlhist.op = "check"
    /\ rlhist.faulted
    /\ rlhist.result
    /\ rlhist.before = MaxRequests

----------------------------------------------------------------------------
(* Properties of the presence entries *)

\* C18: a device marked online by a successful submit at time t is online
\* at every time before t + 300 and not online from t + 300 on, as long as
\* it is not marked again; no set_device_offline call is needed.
C18_OnlineForFiveMinutes ==
    \A d \in DeviceIds :
        presence[d].since # NoValue =>
            (is_device_online(online, d, {}, now) <=> now - presence[d].since < 300)

\* device 1 submitted at t = 1 and is no longer online at t = 301
C18_Witness ==
    /\ presence[1].since = 1
    /\ now = 301
    /\ ~is_device_online(online, 1, {}, now)

\* C19: from a set_device_offline(d) that went through until the next
\* set_device_online(d), d is not online and not among get_online_devices();
\* the call leaves the score of every other device as it was.
C19_OfflineRemovesMember ==
    [][/\ \A d \in DeviceIds :
            presence'[d].offline =>
                /\ ~is_device_online(online', d, {}, now')
                /\ d \notin get_online_devices(online', {}, now')
       /\ last'.op = "set_offline" =>
              \A e \in DeviceIds \ {last'.device_id} : online'[e] = online[e]]_vars

\* device 1 was online and was taken offline while device 2 stays online
C19_Witness ==
    /\ last.op = "set_offline"
    /\ last.device_id = 1
    /\ last.was_online
    /\ presence[1].offline
    /\ 2 \in get_online_devices(online, {}, now)
    /\ is_device_online(online, 2, {}, now)

\* C20: when invalidate_device_cache(d) returns true, get_device(d),
\* get_latest_telemetry(d) and get_last_seen(d) are none, get_alerts(d) is
\* empty and is_device_online(d) is false.
C20_InvalidateRemovesAll ==
    (last.op = "invalidate" /\ last.status = OK) =>
        LET d == last.device_id
        IN /\ ~get_device(devinfo, d, {}, now).present
           /\ redis_get_latest_telemetry(latest, d, {}, now) = None
           /\ get_last_seen(lastseen, d, {}) = NoValue
           /\ get_alerts(alerts, d, {}) = <<>>
           /\ ~is_device_online(online, d, {}, now)

\* all five entries of the device were there when it was invalidated
C20_Witness ==
    /\ last.op = "invalidate"
    /\ last.status = OK
    /\ last.had_all

\* the four keyed entries of d are gone from the cache
KeysRemoved(d) ==
    /\ ~get_device(devinfo, d, {}, now).present
    /\ redis_get_latest_telemetry(latest, d, {}, now) = None
    /\ get_last_seen(lastseen, d, {}) = NoValue
    /\ get_alerts(alerts, d, {}) = <<>>

\* C21: a reader never finds a device partially invalidated, during an
\* invalidation or after one that failed part-way: once the invalidation
\* has removed the identity, latest-telemetry, last-seen and alert entries
\* of d, the presence entry does not report d online.
C21_NoPartialInvalidation ==
    (last.op = "invalidate" /\ last.had_all /\ KeysRemoved(last.device_id))
        => ~is_device_online(online, last.device_id, {}, now)

----------------------------------------------------------------------------
(* Properties of the cache calls of a submit *)

\* C22: a cache write that fails returns false and leaves the cache as it
\* was: a submit whose cache_latest_telemetry, set_device_online or
\* update_last_seen call returned false did not change the entry that call
\* writes.
C22_FailedWriteChangesNothing ==
    [][last'.op = "submit" =>
          /\ "cache" \in last'.failed => latest' = latest
          /\ "online" \in last'.failed => online' = online
          /\ "last_seen" \in last'.failed => lastseen' = lastseen]_vars

----------------------------------------------------------------------------
(* Store specification: the telemetry store written, queried by range and   *)
(* deleted by range directly, with one and two measurements per point.      *)

StoreTimes == {10 * i : i \in 1..MaxPoints}

\* the instants a range may start or end at
StoreInstants == {1} \cup StoreTimes \cup {10 * MaxPoints + 5}

StoreData ==
    {<<>>,
     <<Item("temperature", Num1)>>,
     <<Item("temperature", Num1), Item("humidity", Num1)>>,
     <<Item("temperature", Num1), Item("humidity", PyBool(TRUE))>>,
     <<Item("humidity", PyStr("ok"))>>}

\* every instant alone, everything, and the default: the last hour up to now
StoreRanges ==
    {<<TimeStr("iso", 0, "", t), TimeStr("iso", 0, "", t)>> : t \in StoreTimes}
    \cup {<<TimeStr("iso", 0, "", 1), TimeStr("iso", 0, "", 10 * MaxPoints + 5)>>,
          <<TimeStr("rel", 1, "h", 0), TimeStr("empty", 0, "", 0)>>}

StoreLimits == 1..(MaxPoints + 1)

\* device 1 writes every kind of map at every instant, a write without a
\* device id, one whose second execute raises, and one write of device 2
StoreWrite ==
    \/ \E data \in StoreData, ts \in StoreTimes : WriteTelemetry(1, data, ts, 0)
    \/ \E r \in {<<NoDevice, <<Item("temperature", Num1)>>, 10, 0>>,
                 <<1, <<Item("temperature", Num1)>>, NoValue, 2>>,
                 <<2, <<Item("temperature", Num1)>>, 10, 0>>} :
           WriteTelemetry(r[1], r[2], r[3], r[4])

StoreRange ==
    \E d \in DeviceIds, rg \in StoreRanges, limit \in StoreLimits :
        GetDeviceTelemetry(d, rg[1], rg[2], limit, d = 2 /\ limit = 1)

StoreDelete ==
    \E d \in DeviceIds, rg \in StoreRanges :
        /\ rg[2].kind = "iso"
        /\ DeleteDeviceData(d, rg[1], rg[2], d = 2 /\ rg[1].t = 1)

NextStore ==
    \/ StoreWrite
    \/ StoreRange
    \/ StoreDelete

SpecStore == Init /\ [][NextStore]_vars

\* the rows of device d with a timestamp in [s, e]
RowsIn(dd, d, s, e) ==
    {r \in dd : r.device_id = d /\ r.timestamp >= s /\ r.timestamp <= e}

\* an int or a float that is not a bool
IntOrFloat(v) == v.t = "num"

\* C23: write_telemetry returns false, without raising and without writing a
\* row to device_data or latest_data, when device_id is absent or the
\* measurement map is empty.
C23_RejectedWriteWritesNothing ==
    [][(last'.op = "write" /\ (last'.device_id = NoDevice \/ last'.data = <<>>))
          => /\ ~last'.cassandra_success
             /\ device_data' = device_data
             /\ latest_data' = latest_data]_vars

\* a write without a device id was refused while the store held rows
C23_Witness ==
    /\ last.op = "write"
    /\ last.device_id = NoDevice
    /\ last.data # <<>>
    /\ ~last.cassandra_success
    /\ device_data # {}

\* C24: a successful write_telemetry persists exactly one device_data row and
\* one latest_data row for each measurement whose value is an int or float and
\* not a boolean, persists nothing for any other measurement, and returns true
\* also when some measurements were skipped.
C24_OneRowPerNumericMeasurement ==
    [][last'.op = "write" =>
         LET d == last'.device_id
             ts == last'.timestamp
             data == last'.data
             DD(rows, n) == {r \in rows : r.device_id = d /\ r.timestamp = ts
                                          /\ r.measurement_name = n}
             LD(rows, n) == {r \in rows : r.device_id = d /\ r.measurement_name = n}
         IN /\ (d # NoDevice /\ data # <<>> /\ last'.clean) => last'.cassandra_success
            /\ last'.cassandra_success =>
                 /\ \A n \in Keys(data) :
                      IF IntOrFloat(ValueOf(data, n))
                      THEN /\ DD(device_data', n) =
                                {[device_id |-> d, timestamp |-> ts, measurement_name |-> n,
                                  numeric_value |-> ValueOf(data, n).n]}
                           /\ LD(latest_data', n) =
                                {[device_id |-> d, measurement_name |-> n, timestamp |-> ts,
                                  numeric_value |-> ValueOf(data, n).n]}
                      ELSE /\ DD(device_data', n) = DD(device_data, n)
                           /\ LD(latest_data', n) = LD(latest_data, n)
                 /\ \A n \in MeasurementNames \ Keys(data) :
                      /\ DD(device_data', n) = DD(device_data, n)
                      /\ LD(latest_data', n) = LD(latest_data, n)
                 /\ {r \in device_data' : r.device_id # d \/ r.timestamp # ts}
                      = {r \in device_data : r.device_id # d \/ r.timestamp # ts}
                 /\ {r \in latest_data' : r.device_id # d}
                      = {r \in latest_data : r.device_id # d}]_vars

\* a write of a number and a boolean returned true and kept the number only
C24_Witness ==
    /\ last.op = "write"
    /\ last.cassandra_success
    /\ \E n \in Keys(last.data) : ValueOf(last.data, n).t = "bool"
    /\ \E n \in Keys(last.data) :
         /\ IntOrFloat(ValueOf(last.data, n))
         /\ \E r \in device_data : /\ r.device_id = last.device_id
                                   /\ r.timestamp = last.timestamp
                                   /\ r.measurement_name = n

\* the points of device last.device_id in the queried range
PointsInRange ==
    {r.timestamp : r \in RowsIn(device_data, last.device_id, last.start_dt, last.end_dt)}

\* C25: for a device with P points (distinct timestamps) in the queried range,
\* each carrying any number of measurements, get_device_telemetry with limit L
\* returns exactly min(L, P) points, the most recent ones, by timestamp
\* descending.
C25_LimitCountsPoints ==
    (last.op = "range" /\ last.store_read = "found") =>
        LET P == Cardinality(PointsInRange)
            n == Len(last.points)
        IN /\ n = IF last.limit < P THEN last.limit ELSE P
           /\ \A i \in 1..n, j \in 1..n :
                i < j => last.points[i].timestamp > last.points[j].timestamp
           /\ \A i \in 1..n, t \in PointsInRange :
                t > last.points[i].timestamp => \E j \in 1..n : last.points[j].timestamp = t

\* C26: after delete_device_data(d, t0, t1) returns true, a range query of d
\* over [t0, t1] returns an empty list, and a range query of d over an
\* interval disjoint from [t0, t1], or of another device, returns the same
\* points as before the delete.
C26_DeleteRemovesRangeOnly ==
    [][(last'.op = "delete" /\ last'.cassandra_success) =>
         LET d == last'.device_id
             t0 == last'.start_dt
             t1 == last'.end_dt
             Q(dd, q, s, e, L) == cassandra_get_device_telemetry(dd, q, s, e, L, FALSE)
         IN /\ \A L \in StoreLimits : Q(device_data', d, t0, t1, L) = <<>>
            /\ \A q \in DeviceIds, s \in StoreInstants, e \in StoreInstants, L \in StoreLimits :
                 (q # d \/ e < t0 \/ s > t1) =>
                     Q(device_data', q, s, e, L) = Q(device_data, q, s, e, L)]_vars

\* a delete removed rows of a device that has rows outside the range, while
\* another device has rows as well
C26_Witness ==
    /\ last.op = "delete"
    /\ last.cassandra_success
    /\ last.removed > 0
    /\ \E r \in device_data : r.device_id = last.device_id
    /\ \E r \in device_data : r.device_id # last.device_id

\* C29: every point returned by get_device_telemetry contains all numeric
\* measurements written for that device at that timestamp: rows sharing a
\* timestamp are merged into one record and no returned record misses a
\* measurement, for every limit value.
C29_PointsAreComplete ==
    (last.op = "range" /\ last.store_read = "found") =>
        \A i \in 1..Len(last.points) :
            DOMAIN last.points[i].measurements =
                {r.measurement_name :
                    r \in RowsIn(device_data, last.device_id,
                                 last.points[i].timestamp, last.points[i].timestamp)}

\* C30: retrying a store write is idempotent: writing the same (device,
\* timestamp, measurements) a second time leaves device_data, latest_data and
\* the results of the range query and of the store's latest query as they
\* were after the first write.
C30_RetryIsIdempotent ==
    [][(last'.op = "write" /\ last'.retry /\ last'.cassandra_success) =>
         /\ device_data' = device_data
         /\ latest_data' = latest_data
         /\ \A q \in DeviceIds :
              /\ cassandra_get_latest_telemetry(latest_data', q, FALSE)
                   = cassandra_get_latest_telemetry(latest_data, q, FALSE)
              /\ \A s \in StoreInstants, e \in StoreInstants, L \in StoreLimits :
                   cassandra_get_device_telemetry(device_data', q, s, e, L, FALSE)
                     = cassandra_get_device_telemetry(device_data, q, s, e, L, FALSE)]_vars

\* a write of numeric measurements was repeated and succeeded both times
C30_Witness ==
    /\ last.op = "write"
    /\ last.retry
    /\ last.cassandra_success
    /\ \E n \in Keys(last.data) : IntOrFloat(ValueOf(last.data, n))
    /\ \E r \in device_data : r.device_id = last.device_id /\ r.timestamp = last.timestamp

----------------------------------------------------------------------------
(* Event specification: events of two types, two devices and three times    *)
(* are logged and read back by every query with every limit.                *)

\* event type, device, owner, timestamp (NoValue: none given)
EventInputs ==
    {<<"telemetry.submitted", 1, 1, 5>>, <<"telemetry.submitted", 1, 1, 9>>,
     <<"device.registered", 1, 1, NoValue>>, <<"telemetry.submitted", 2, 2, 5>>,
     <<"device.registered", 2, 2, 9>>}

EventLimits == 0..2

LogEvents ==
    /\ Len(event_logs) < MaxEvents
    /\ \E e \in EventInputs, raises \in BOOLEAN : LogEvent(e[1], e[2], e[3], e[4], raises)

DeviceEvents ==
    \E d \in DeviceIds, limit \in EventLimits : GetDeviceEvents(d, limit, limit = 2 /\ d = 2)

UserEvents ==
    \E u \in DeviceIds, limit \in EventLimits : GetUserEvents(u, limit, limit = 2 /\ u = 2)

EventsByType ==
    \E ty \in {"telemetry.submitted", "device.registered"}, limit \in EventLimits :
        GetEventsByType(ty, limit, FALSE)

EventsInRange ==
    \E rg \in {<<NoValue, NoValue>>, <<5, NoValue>>, <<NoValue, 5>>, <<5, 9>>},
       limit \in EventLimits :
        GetEvents(rg[1], rg[2], limit, FALSE)

NextEvents ==
    \/ LogEvents
    \/ DeviceEvents
    \/ UserEvents
    \/ EventsByType
    \/ EventsInRange

SpecEvents == Init /\ [][NextEvents]_vars

EventQueries == {"get_device_events", "get_user_events", "get_events_by_type", "get_events"}

\* the filter of the query that last records
MatchesFilter(e) ==
    CASE last.op = "get_device_events" -> e.device_id = last.device_id
      [] last.op = "get_user_events" -> e.user_id = last.user_id
      [] last.op = "get_events_by_type" -> e.event_type = last.event_type
      [] OTHER -> /\ last.start_dt # NoValue => e.timestamp >= last.start_dt
                  /\ last.end_dt # NoValue => e.timestamp <= last.end_dt

\* C28: get_device_events, get_user_events, get_events_by_type and get_events
\* each return at most `limit` events, all matching the filter, by timestamp
\* descending; the returned events are the `limit` most recent matching ones.
C28_EventQueriesAreCapped ==
    (last.op \in EventQueries /\ last.store_read = "found") =>
        LET res == last.points
            matching == SelectSeq(event_logs, MatchesFilter)
            Count(seq, e) == Cardinality({i \in 1..Len(seq) : seq[i] = e})
        IN /\ Len(res) <= last.limit
           /\ \A i \in 1..Len(res) : MatchesFilter(res[i])
           /\ \A i \in 1..Len(res), j \in 1..Len(res) :
                i < j => res[i].timestamp >= res[j].timestamp
           /\ Len(res) = IF last.limit < Len(matching) THEN last.limit ELSE Len(matching)
           /\ \A i \in 1..Len(res) : Count(res, res[i]) <= Count(matching, res[i])
           /\ \A k \in 1..Len(matching) :
                Count(res, matching[k]) < Count(matching, matching[k]) =>
                    \A i \in 1..Len(res) : res[i].timestamp >= matching[k].timestamp

----------------------------------------------------------------------------
(* Concurrent-submit specification: each caller submits its own value of    *)
(* one measurement of device 1, the two halves of the handlers interleave,  *)
(* and the latest values are read.                                          *)

ConcFaults == {NoFaults, Faults({"hset"}, 0, FALSE)}

ConcWrite ==
    \E c \in Callers :
        StoreTelemetryWrite(c, "k1", <<Item("temperature", PyNum(c))>>, NoTimestamp, NoFaults)

ConcCache ==
    \E c \in Callers, f \in ConcFaults : StoreTelemetryCache(c, f)

ConcGetLatest ==
    \E f \in {NoFaults, Faults({"hgetall"}, 0, FALSE)} : get_device_latest_telemetry("k1", 1, f)

NextSubmitConc ==
    \/ ConcWrite
    \/ ConcCache
    \/ ConcGetLatest

SpecSubmitConc == Init /\ [][NextSubmitConc]_vars

\* two submits wrote one after the other, no step of theirs failed, and both
\* have answered
BothReturned ==
    /\ last.op = "submit_cache"
    /\ last.writes = 2
    /\ submits = 2
    /\ \A c \in Callers : calls[c].pc = "idle"
    /\ last.clean

\* C27: for two submits to the same device and measurement whose durable
\* writes complete in the order A then B, once both submits have returned
\* getLatest returns the value of B, the later-completing write, under every
\* interleaving of the store-write and cache-population steps of the two.
C27_LatestIsLaterWrite ==
    [][(BothReturned /\ last'.op = "getLatest" /\ last'.clean) =>
          /\ last'.status = OK
          /\ \A n \in DOMAIN last.nums :
               /\ n \in DOMAIN last'.body
               /\ last'.body[n] = last.nums[n]]_vars

----------------------------------------------------------------------------
(* Validation specification: submits with every combination of body, key,   *)
(* measurements and timestamp, with the cache up and down.                  *)

ValidationData == {<<>>, <<Item("temperature", Num1)>>}

ValidateSubmit ==
    \E has_body \in BOOLEAN, api_key \in {NoKey, "zz", "k1", "k2"},
       data \in ValidationData, ts \in {NoTimestamp, IsoTimestamp(5), BadTimestamp},
       f \in {NoFaults, RedisDown} :
        /\ ~has_body => (data = <<>> /\ ts = NoTimestamp)
        /\ store_telemetry_json(has_body, api_key, data, ts, f)

ValidateGetLatest ==
    \E r \in {<<"k1", 1>>, <<"k2", 1>>} : get_device_latest_telemetry(r[1], r[2], NoFaults)

NextValidate ==
    \/ ValidateSubmit
    \/ ValidateGetLatest

SpecValidate == Init /\ [][NextValidate]_vars

\* a device of the authoritative store has the key k
KnownKey(k) == \E d \in DeviceIds : Device[d].exists /\ Device[d].api_key = k

\* a submit answered Unauthorized or BadRequest
Rejected(l) == l.op = "submit" /\ l.status \in {Unauthorized, BadRequest}

\* nothing but the API-key cache changes in the step
RejectedFrame ==
    /\ device_data' = device_data
    /\ latest_data' = latest_data
    /\ user_data' = user_data
    /\ latest' = latest
    /\ online' = online
    /\ event_logs' = event_logs

\* identity first, then measurements, then timestamp
ValidationOrder(l) ==
    /\ (l.api_key = NoKey \/ ~KnownKey(l.api_key)) => l.status = Unauthorized
    /\ l.status = Unauthorized => (l.api_key = NoKey \/ ~KnownKey(l.api_key))
    /\ l.status = BadRequest => (l.data = <<>> \/ l.bad_timestamp)

PresentsKey == last'.op \in {"submit", "getLatest", "getRange"} /\ last'.api_key # NoKey

\* the devices of the authoritative store that have the key k
DevicesOfKey(k) == {d \in DeviceIds : Device[d].exists /\ Device[d].api_key = k}

----------------------------------------------------------------------------
(* Parsing specification: _parse_time_range on every kind of string, at     *)
(* several times of the clock.                                              *)

TimeUnits == {"h", "d", "w", "m"}

ParseInputs ==
    {TimeStr(k, 0, "", 0) : k \in {"empty", "now", "bad"}}
    \cup {TimeStr("rel", n, u, 0) : n \in 0..2, u \in TimeUnits}
    \cup {TimeStr("relbad", 0, u, 0) : u \in TimeUnits}
    \cup {TimeStr("iso", 0, "", t) : t \in {1, 10, 20}}

Parse == \E time_str \in ParseInputs : ParseTimeRange(time_str)

ParseClock == Tick(100)

NextParse ==
    \/ Parse
    \/ ParseClock

SpecParse == Init /\ [][NextParse]_vars

\* C33: _parse_time_range never fails: for every input string it returns an
\* instant: now for 'now' or the empty string, now minus the duration for
\* '-<n>h', '-<n>d', '-<n>w' and '-<n>m', the instant of an ISO-8601 string,
\* and now minus one hour for every other string, a '-' prefix with a unit
\* suffix and an amount that is not an integer included.
C33_ParseNeverFails ==
    last.op = "parse" =>
        /\ ~last.parse_raised
        /\ last.start_dt =
             CASE last.time_str.kind \in {"empty", "now"} -> now
               [] last.time_str.kind = "rel" ->
                    now - last.time_str.n *
                            (CASE last.time_str.unit = "h" -> 3600
                               [] last.time_str.unit = "d" -> 86400
                               [] last.time_str.unit = "w" -> 604800
                               [] OTHER -> 60)
               [] last.time_str.kind = "iso" -> last.time_str.t
               [] OTHER -> now - 3600

\* C35: at any instant is_device_online(d) is true if and only if d is in
\* get_online_devices(): the two presence reads agree for every recorded
\* score, a score exactly 300 s old included.
C35_PresenceReadsAgree ==
    \A d \in DeviceIds :
        is_device_online(online, d, {}, now) <=> d \in get_online_devices(online, {}, now)

----------------------------------------------------------------------------
(* Concurrent-read specification: caller 1 submits one value after another   *)
(* for device 1, caller 2 reads the latest values, the cache is invalidated, *)
(* and the halves of the two handlers interleave.                           *)

ReadConcWrite ==
    StoreTelemetryWrite(1, "k1", <<Item("temperature", PyNum(submits + 1))>>,
                        NoTimestamp, NoFaults)

ReadConcCache == StoreTelemetryCache(1, NoFaults)

ReadConcRead ==
    \E d \in DeviceIds : GetLatestRead(2, IF d = 1 THEN "k1" ELSE "k2", d, NoFaults)

ReadConcFill == GetLatestFill(2, NoFaults)

ReadConcInvalidate == InvalidateDeviceCache(1, {})

NextReadConc ==
    \/ ReadConcWrite
    \/ ReadConcCache
    \/ ReadConcRead
    \/ ReadConcFill
    \/ ReadConcInvalidate

SpecReadConc == Init /\ [][NextReadConc]_vars

\* C34: a getLatest that misses the cache and runs concurrently with a submit
\* for the same device never leaves the cache stale: once both have
\* completed, the cached latest-telemetry entry, if present, equals the
\* latest_data rows of the store for that device.
C34_RefillNeverStale ==
    (\A c \in Callers : calls[c].pc = "idle") =>
        \A d \in DeviceIds :
            redis_get_latest_telemetry(latest, d, {}, now) # None =>
                redis_get_latest_telemetry(latest, d, {}, now)
                    = cassandra_get_latest_telemetry(latest_data, d, FALSE)

\* C36: the durable write is all-or-nothing as seen by the caller: if submit
\* returns InternalError, no measurement of that submission is visible
\* afterwards through the range query, the store's latest query or the user
\* telemetry (the user_data rows), also when the failure comes between
\* measurements or in the user_data write after the device_data write.
C36_FailedWriteIsInvisible ==
    [][(last'.op = "submit" /\ last'.status = InternalError) =>
          \A d \in DeviceIds :
              /\ cassandra_get_device_telemetry(device_data', d, 0, MaxTime, MaxLimit, FALSE)
                   = cassandra_get_device_telemetry(device_data, d, 0, MaxTime, MaxLimit, FALSE)
              /\ cassandra_get_latest_telemetry(latest_data', d, FALSE)
                   = cassandra_get_latest_telemetry(latest_data, d, FALSE)
              /\ {r \in user_data' : r.device_id = d} = {r \in user_data : r.device_id = d}]_vars

----------------------------------------------------------------------------
(* Latest-cache specification: whole maps and single measurements are       *)
(* cached for both devices, with failing commands, while entries expire.    *)

LatestMaps ==
    {[n \in {"temperature"} |-> Num1],
     [n \in {"temperature", "humidity"} |-> Num1],
     [n \in {"humidity"} |-> PyBool(TRUE)]}

LatestCache ==
    \E d \in DeviceIds, m \in LatestMaps, fr \in {{}, {"hset"}, {"expire"}} :
        CacheLatestTelemetry(d, m, fr)

LatestUpdate ==
    \E d \in DeviceIds, n \in MeasurementNames, v \in {Num1, PyStr("7"), PyBool(TRUE)},
       fr \in {{}, {"hset"}} :
        UpdateMeasurement(d, n, v, fr)

LatestClock == Tick(LatestTTL)

NextLatest ==
    \/ LatestCache
    \/ LatestUpdate
    \/ LatestClock

SpecLatest == Init /\ [][NextLatest]_vars

\* C37: every latest-telemetry cache entry has a finite TTL in every
\* reachable state: after any sequence of cache_latest_telemetry and
\* update_measurement calls, update_measurement on an absent or expired key
\* and a cache_latest_telemetry whose expire fails included, no
\* telemetry:latest key exists without an expiry.
C37_LatestAlwaysExpires ==
    \A d \in DeviceIds : latest[d].h # None => latest[d].exp # NoExpiry

----------------------------------------------------------------------------
(* Delete specification: both devices submit points, which fills the store  *)
(* and the cache, ranges of points are deleted, and the latest values are   *)
(* read through the cache and, once it is invalidated, from the store.      *)

\* device 1 submits one or two measurements at every instant, device 2 one
DeleteSubmit ==
    \/ \E ts \in StoreTimes,
          data \in {<<Item("temperature", Num1)>>,
                    <<Item("temperature", Num1), Item("humidity", Num1)>>} :
           store_telemetry("k1", data, IsoTimestamp(ts), NoFaults)
    \/ store_telemetry("k2", <<Item("temperature", Num1)>>, IsoTimestamp(10), NoFaults)

DeleteRange ==
    \E d \in DeviceIds, rg \in StoreRanges :
        /\ rg[2].kind = "iso"
        /\ DeleteDeviceData(d, rg[1], rg[2], d = 2 /\ rg[1].t = 1)

DeleteGetLatest == get_device_latest_telemetry("k1", 1, NoFaults)

DeleteInvalidate == InvalidateDeviceCache(1, {})

NextDelete ==
    \/ DeleteSubmit
    \/ DeleteRange
    \/ DeleteGetLatest
    \/ DeleteInvalidate

SpecDelete == Init /\ [][NextDelete]_vars

\* C38: delete_device_data(d, start, end) changes only device_data rows of
\* device d with start <= timestamp <= end: latest_data, user_data, the
\* latest-telemetry cache and all rows of other devices are unchanged, so
\* the latest values of d read the same after the delete as before it, also
\* when every point of d was deleted.
C38_DeleteTouchesRangeOnly ==
    [][last'.op = "delete" =>
         LET d == last'.device_id
             inside == RowsIn(device_data, d, last'.start_dt, last'.end_dt)
         IN /\ device_data' \subseteq device_data
            /\ device_data \ device_data' \subseteq inside
            /\ latest_data' = latest_data
            /\ user_data' = user_data
            /\ latest' = latest
            /\ \A q \in DeviceIds :
                 /\ redis_get_latest_telemetry(latest', q, {}, now')
                      = redis_get_latest_telemetry(latest, q, {}, now)
                 /\ cassandra_get_latest_telemetry(latest_data', q, FALSE)
                      = cassandra_get_latest_telemetry(latest_data, q, FALSE)]_vars

\* every point of a device was deleted, and its latest values are still in
\* the store and in the cache
C38_Witness ==
    /\ last.op = "delete"
    /\ last.cassandra_success
    /\ last.removed > 0
    /\ RowsIn(device_data, last.device_id, 0, MaxTime) = {}
    /\ cassandra_get_latest_telemetry(latest_data, last.device_id, FALSE) # None
    /\ redis_get_latest_telemetry(latest, last.device_id, {}, now) # None
    /\ \E r \in device_data : r.device_id # last.device_id

----------------------------------------------------------------------------
(* Key-change specification: device 1 is given another key in the identity *)
(* store while the old and the new key are presented to the three          *)
(* authenticated requests.                                                  *)

KeySubmit ==
    \E k \in {"k1", "zz"} :
        store_telemetry(k, <<Item("temperature", Num1)>>, NoTimestamp, NoFaults)

KeyGetLatest ==
    \E k \in {"k1", "zz"}, d \in DeviceIds :
        get_device_latest_telemetry(k, d, NoFaults)

KeyGetRange ==
    \E k \in {"k1", "zz"}, d \in DeviceIds :
        get_device_telemetry(k, d, TimeStr("rel", 1, "h", 0), TimeStr("empty", 0, "", 0),
                             DefaultLimit, NoFaults)

KeyChange == \E k \in {"k1", "zz"} : change_api_key(1, k)

KeyClock == Tick(LatestTTL)

NextKey ==
    \/ KeySubmit
    \/ KeyGetLatest
    \/ KeyGetRange
    \/ KeyChange
    \/ KeyClock

SpecKey == Init /\ [][NextKey]_vars

\* the request of the step passed authentication as device d
AuthorizedAs(l, d) ==
    /\ l.op \in {"submit", "getLatest", "getRange"}
    /\ ~l.no_body
    /\ l.resolved = d
    /\ l.status \notin {Unauthorized, Forbidden}

\* C39: a submit, getLatest or getRange is authorized as device d only if
\* the presented key is d's key in the identity store at the time of the
\* request: a cached mapping of a key that was changed while d still exists
\* never authorizes.
C39_StaleKeyNeverAuthorizes ==
    [][\A d \in DeviceIds :
         AuthorizedAs(last', d) => Device[d].api_key = last'.api_key]_vars

====
